---- MODULE Spec2Model ----
(***************************************************************************)
(* A model of the job processing pipeline of the job scraping application *)
(* (src/processor.py, class JobProcessor).                                 *)
(*                                                                         *)
(* Strings are sequences of one-character strings.  A Python dict is a    *)
(* function whose DOMAIN is the set of keys that are present, so          *)
(* d.get(k, default) is Get(d, k, default).  The job records are objects  *)
(* mutated in place: the variable jobs is the heap of records, and every  *)
(* list of records (processed_jobs, unique_jobs, the returned list) is a  *)
(* sequence of indices into that heap.  Scores are whole-valued floats    *)
(* and are modelled as integers.                                           *)
(***************************************************************************)
EXTENDS Integers, Sequences, FiniteSets, TLC

VARIABLES
    keywords_config,   \* the configuration document handed to JobProcessor
    input,             \* the records as handed to the first process_jobs call
    jobs,              \* the records as they are now (mutated in place)
    processed_jobs,    \* process_jobs: the list handed to deduplicate_jobs
    dedup_steps,       \* deduplicate_jobs: unique_jobs after 0, 1, ... records
    unique_jobs,       \* deduplicate_jobs: the list it returned
    result,            \* process_jobs: the list it returned
    clock,             \* datetime.now(), a counter
    hashes,            \* deduplicate_jobs: the job_hash computed for each record
    log,               \* per finished run: the scores and the survivors
    pc,                \* "ready" before the first call, "done" after a call
    permuted,          \* process_jobs on a reordered copy of input: what it left
    raw_config,        \* the keyword document as it was loaded, with its types
    null_keys,         \* the keyword lists of the processor that are None
    error,             \* the exception that reached the caller, or "none"
    call,              \* a fetch_jobs call: the adapter and what the server answers
    fetched,           \* the list that fetch_jobs call returned
    companies_config,  \* the company list handed to fetch_all_jobs
    responses,         \* what the server answers for each company of the list
    all_jobs,          \* the list fetch_all_jobs returned
    fetch_pc,          \* "idle", "ready", then "returned" or "raised"
    ranked,            \* the list handed to generate_markdown_report
    sections,          \* the per-company sections of the report it wrote
    report_pc,         \* "idle", "ready", then "written" or "raised"
    environment,       \* what the stages of a run of main meet
    stages,            \* the stages main has run, in order
    exit_status,       \* what main returned, or "none"
    git,               \* a commit_and_push_reports call: its files
    git_steps,         \* the commands that call ran, in order, and how each ended
    commit_success,    \* what that call returned
    github,            \* the GitHubIntegration object: whether token and repo are set
    issues,            \* the issues of the repository, by number
    digest_log         \* per create_daily_digest_issue call: what it did

\* the state of the processor and of the records it was handed
processor_vars == <<keywords_config, input, jobs, processed_jobs, dedup_steps,
                    unique_jobs, result, clock, hashes, log, pc>>

\* the document as loaded and what its wrong types leave in the processor
config_vars == <<raw_config, null_keys, error>>

\* the state of the fetch adapters and of their manager
fetch_vars == <<call, fetched, companies_config, responses, all_jobs, fetch_pc>>

\* the state of the reporter
report_vars == <<ranked, sections, report_pc>>

\* the state of a run of main
main_vars == <<environment, stages, exit_status>>

\* the state of the GitHub integration and of the repository it writes to
github_vars == <<git, git_steps, commit_success, github, issues, digest_log>>

vars == <<processor_vars, permuted, config_vars, fetch_vars, report_vars,
          main_vars, github_vars>>

\* no fetch was asked for
FetchIdle ==
    /\ call = [adapter |-> "none"]
    /\ fetched = <<>>
    /\ companies_config = <<>>
    /\ responses = <<>>
    /\ all_jobs = <<>>
    /\ fetch_pc = "idle"

\* no report was asked for
ReportIdle ==
    /\ ranked = <<>>
    /\ sections = <<>>
    /\ report_pc = "idle"

\* main is not run
MainIdle ==
    /\ environment = [run |-> "none"]
    /\ stages = <<>>
    /\ exit_status = "none"

\* no commit was asked for
CommitIdle ==
    /\ git = [call |-> "none"]
    /\ git_steps = <<>>
    /\ commit_success = FALSE

\* no issue was asked for
IssueIdle ==
    /\ github = [run |-> "none", configured |-> FALSE]
    /\ issues = <<>>
    /\ digest_log = <<>>

----------------------------------------------------------------------------
(* Bounds of the model. *)

MaxJobs == 3

MaxRuns == 2

MaxTitleLen == 3

MaxTextLen == 2

MaxExcludes == 2

MaxLocationParts == 2

MaxPartialJobs == 2

MaxEntries == 2

MaxCompanies == 2

MaxKeyLen == 2

MaxFiles == 3

MaxDigests == 3

MaxReportJobs == 12

----------------------------------------------------------------------------
(* Characters and strings. *)

UpperSeq ==
    <<"A","B","C","D","E","F","G","H","I","J","K","L","M",
      "N","O","P","Q","R","S","T","U","V","W","X","Y","Z">>

LowerSeq ==
    <<"a","b","c","d","e","f","g","h","i","j","k","l","m",
      "n","o","p","q","r","s","t","u","v","w","x","y","z">>

Digits == {"0","1","2","3","4","5","6","7","8","9"}

Range(s) == {s[i] : i \in DOMAIN s}

UpperChars == Range(UpperSeq)

LowerOf ==
    [c \in UpperChars |->
        LowerSeq[CHOOSE i \in DOMAIN UpperSeq : UpperSeq[i] = c]]

\* str.lower() on one character
LowerChar(c) == IF c \in UpperChars THEN LowerOf[c] ELSE c

\* str.lower()
Lower(s) == [i \in DOMAIN s |-> LowerChar(s[i])]

\* the characters str.strip() removes and the regex class \s matches
SpaceChars == {" ", "\t", "\n"}

IsSpace(c) == c \in SpaceChars

\* the regex class \w: letters, digits and the underscore
WordChars == Range(UpperSeq) \cup Range(LowerSeq) \cup Digits \cup {"_"}

IsWord(c) == c \in WordChars

\* str.strip()
Strip(s) ==
    LET keep == {i \in DOMAIN s : ~IsSpace(s[i])}
    IN  IF keep = {} THEN <<>>
        ELSE LET lo == CHOOSE i \in keep : \A j \in keep : i <= j
                 hi == CHOOSE i \in keep : \A j \in keep : j <= i
             IN  SubSeq(s, lo, hi)

\* needle in haystack
Contains(needle, haystack) ==
    \E i \in 0..(Len(haystack) - Len(needle)) :
        SubSeq(haystack, i + 1, i + Len(needle)) = needle

\* re.sub(r'\s+', ' ', s): every maximal run of whitespace becomes one space
RECURSIVE CollapseWs(_)
CollapseWs(s) ==
    IF s = <<>> THEN <<>>
    ELSE IF IsSpace(Head(s))
         THEN IF Len(s) > 1 /\ IsSpace(s[2])
              THEN CollapseWs(Tail(s))
              ELSE <<" ">> \o CollapseWs(Tail(s))
         ELSE <<Head(s)>> \o CollapseWs(Tail(s))

KeepWordOrSpace(c) == IsWord(c) \/ IsSpace(c)

\* a substitution that leaves the colons of the title in
StripNonWordKeepsColon(s) ==
    SelectSeq(s, LAMBDA c : KeepWordOrSpace(c) \/ c = ":")

\* re.sub(r'[^\w\s]', '', s)
StripNonWord(s) == SelectSeq(s, KeepWordOrSpace)

----------------------------------------------------------------------------
(* Python dicts. *)

\* d.get(k) put into a string: a missing key reads as the text None
GetNoneAsText(d, k, default) ==
    IF k \in DOMAIN d THEN d[k] ELSE <<"N","o","n","e">>

\* d.get(k, default)
Get(d, k, default) == IF k \in DOMAIN d THEN d[k] ELSE default

\* d[k] = v
DictSet(d, k, v) == [x \in (DOMAIN d) \cup {k} |-> IF x = k THEN v ELSE d[x]]

EmptyDict == [x \in {} |-> <<>>]

----------------------------------------------------------------------------
(* JobProcessor.__init__: the keyword lists read from the configuration. *)

high_priority_keywords ==
    Get(Get(keywords_config, "keywords", EmptyDict), "high_priority", <<>>)

medium_priority_keywords ==
    Get(Get(keywords_config, "keywords", EmptyDict), "medium_priority", <<>>)

low_priority_keywords ==
    Get(Get(keywords_config, "keywords", EmptyDict), "low_priority", <<>>)

preferred_skills == Get(keywords_config, "preferred_skills", <<>>)

preferred_locations == Get(keywords_config, "preferred_locations", <<>>)

\* exclude_keywords defaulting to a list that holds the empty string
exclude_keywords_default_blank ==
    Get(keywords_config, "exclude_keywords", << <<>> >>)

exclude_keywords == Get(keywords_config, "exclude_keywords", <<>>)

----------------------------------------------------------------------------
(* JobProcessor.normalize_location *)

REMOTE == <<"r","e","m","o","t","e">>

ANYWHERE == <<"a","n","y","w","h","e","r","e">>

DISTRIBUTED == <<"d","i","s","t","r","i","b","u","t","e","d">>

RemoteTerms == <<REMOTE, ANYWHERE, DISTRIBUTED>>

UNKNOWN == <<"U","n","k","n","o","w","n">>

REMOTE_LITERAL == <<"R","e","m","o","t","e">>

\* a normalizer that looks for the remote terms in the string as given
normalize_location_as_written(location) ==
    IF location = <<>> THEN UNKNOWN
    ELSE LET stripped == Strip(location)
         IN  IF \E t \in DOMAIN RemoteTerms :
                    Contains(RemoteTerms[t], stripped)
             THEN REMOTE_LITERAL
             ELSE stripped

normalize_location(location) ==
    IF location = <<>> THEN UNKNOWN
    ELSE LET stripped == Strip(location)
         IN  IF \E t \in DOMAIN RemoteTerms :
                    Contains(RemoteTerms[t], Lower(stripped))
             THEN REMOTE_LITERAL
             ELSE stripped

----------------------------------------------------------------------------
(* JobProcessor.should_exclude_job *)

text_to_check(job) ==
    Lower(Get(job, "title", <<>>) \o <<" ">> \o Get(job, "description", <<>>))

\* a check that compares the keyword as configured, not lower-cased
should_exclude_job_as_written(job) ==
    \E k \in DOMAIN exclude_keywords :
        Contains(exclude_keywords[k], text_to_check(job))

should_exclude_job(job) ==
    \E k \in DOMAIN exclude_keywords :
        Contains(Lower(exclude_keywords[k]), text_to_check(job))

----------------------------------------------------------------------------
(* JobProcessor.calculate_job_score *)

\* a keyword loop without the break: every matching keyword adds w
FirstMatchNoBreak(keywords, text, w) ==
    w * Cardinality({k \in DOMAIN keywords : Contains(Lower(keywords[k]), text)})

\* for keyword in keywords: if keyword.lower() in text: score += w; break
FirstMatch(keywords, text, w) ==
    IF \E k \in DOMAIN keywords : Contains(Lower(keywords[k]), text)
    THEN w ELSE 0

\* the loop over preferred_skills: one count per list entry that matches
skills_matched(job) ==
    LET title       == Lower(Get(job, "title", <<>>))
        description == Lower(Get(job, "description", <<>>))
    IN  Cardinality({k \in DOMAIN preferred_skills :
            \/ Contains(Lower(preferred_skills[k]), description)
            \/ Contains(Lower(preferred_skills[k]), title)})

skills_bonus(n) == IF n >= 5 THEN 5 ELSE IF n >= 3 THEN 2 ELSE 0

\* a score without the flat +1
calculate_job_score_no_flat(job) ==
    LET title    == Lower(Get(job, "title", <<>>))
        location == Lower(Get(job, "location", <<>>))
    IN    FirstMatch(high_priority_keywords, title, 10)
        + FirstMatch(medium_priority_keywords, title, 5)
        + FirstMatch(low_priority_keywords, title, 2)
        + skills_matched(job)
        + skills_bonus(skills_matched(job))
        + FirstMatch(preferred_locations, location, 3)

calculate_job_score(job) ==
    LET title    == Lower(Get(job, "title", <<>>))
        location == Lower(Get(job, "location", <<>>))
    IN    FirstMatch(high_priority_keywords, title, 10)
        + FirstMatch(medium_priority_keywords, title, 5)
        + FirstMatch(low_priority_keywords, title, 2)
        + skills_matched(job)
        + skills_bonus(skills_matched(job))
        + FirstMatch(preferred_locations, location, 3)
        + 1

----------------------------------------------------------------------------
(* JobProcessor.generate_job_hash *)

\* hashlib.md5(...).hexdigest(): a digest, taken to be collision free
Md5(s) == <<"md5", s>>

hash_string(job) ==
    LET title   == Strip(Lower(Get(job, "title", <<>>)))
        company == Strip(Lower(Get(job, "company", <<>>)))
    IN  company \o <<":">> \o StripNonWord(CollapseWs(title))

generate_job_hash(job) == Md5(hash_string(job))

----------------------------------------------------------------------------
(* JobProcessor.deduplicate_jobs.  heap is the records, list the indices  *)
(* of the records in the argument list.  The loop state is the dict       *)
(* seen_hashes (hash -> record) and the list unique_jobs.                 *)

DedupInit == [seen_hashes |-> EmptyDict, unique_jobs |-> <<>>]

\* a replace that appends the new record and leaves the old survivor in
ReplaceSurvivorKeepsOld(heap, unique, j) == Append(unique, j)

\* a replace that puts the new record in the place of the old survivor
ReplaceSurvivorInPlace(heap, unique, j) ==
    LET job_hash == generate_job_hash(heap[j])
    IN  [p \in DOMAIN unique |->
            IF generate_job_hash(heap[unique[p]]) = job_hash THEN j
            ELSE unique[p]]

\* the replace branch: drop every entry with this hash, append the new one
ReplaceSurvivor(heap, unique, j) ==
    LET job_hash == generate_job_hash(heap[j])
        Other(u) == generate_job_hash(heap[u]) # job_hash
    IN  Append(SelectSeq(unique, Other), j)

\* an iteration that also replaces on a description of equal length
DedupStepTieReplaces(heap, st, j) ==
    LET job      == heap[j]
        job_hash == generate_job_hash(job)
    IN  IF job_hash \notin DOMAIN st.seen_hashes
        THEN [seen_hashes |-> DictSet(st.seen_hashes, job_hash, j),
              unique_jobs |-> Append(st.unique_jobs, j)]
        ELSE LET existing == heap[st.seen_hashes[job_hash]]
             IN  IF Len(Get(job, "description", <<>>))
                        >= Len(Get(existing, "description", <<>>))
                 THEN [seen_hashes |-> DictSet(st.seen_hashes, job_hash, j),
                       unique_jobs |->
                           ReplaceSurvivor(heap, st.unique_jobs, j)]
                 ELSE st

\* an iteration that never replaces the record seen first
DedupStepKeepsFirst(heap, st, j) ==
    LET job      == heap[j]
        job_hash == generate_job_hash(job)
    IN  IF job_hash \notin DOMAIN st.seen_hashes
        THEN [seen_hashes |-> DictSet(st.seen_hashes, job_hash, j),
              unique_jobs |-> Append(st.unique_jobs, j)]
        ELSE st

\* one iteration of the for loop, for the record j
DedupStep(heap, st, j) ==
    LET job      == heap[j]
        job_hash == generate_job_hash(job)
    IN  IF job_hash \notin DOMAIN st.seen_hashes
        THEN [seen_hashes |-> DictSet(st.seen_hashes, job_hash, j),
              unique_jobs |-> Append(st.unique_jobs, j)]
        ELSE LET existing == heap[st.seen_hashes[job_hash]]
             IN  IF Len(Get(job, "description", <<>>))
                        > Len(Get(existing, "description", <<>>))
                 THEN [seen_hashes |-> DictSet(st.seen_hashes, job_hash, j),
                       unique_jobs |->
                           ReplaceSurvivor(heap, st.unique_jobs, j)]
                 ELSE st

\* the loop state after the first k records of list
RECURSIVE DedupLoop(_, _, _)
DedupLoop(heap, list, k) ==
    IF k = 0 THEN DedupInit
    ELSE CHOOSE st \in {DedupStep(heap, prev, list[k]) :
                            prev \in {DedupLoop(heap, list, k - 1)}} : TRUE

deduplicate_jobs(heap, list) == DedupLoop(heap, list, Len(list)).unique_jobs

----------------------------------------------------------------------------
(* list.sort(key=lambda x: x.get('score', 0), reverse=True): a stable     *)
(* sort, records of equal score keep their order.                         *)

SortKey(heap, j) == Get(heap[j], "score", 0)

\* a sort that puts x ahead of the records of its own score
InsertByScoreAhead(heap, sorted, x) ==
    LET ahead == {p \in DOMAIN sorted :
                     SortKey(heap, sorted[p]) > SortKey(heap, x)}
        n     == Cardinality(ahead)
    IN  SubSeq(sorted, 1, n) \o <<x>> \o SubSeq(sorted, n + 1, Len(sorted))

\* x goes behind every record whose score is at least its own
InsertByScore(heap, sorted, x) ==
    LET ahead == {p \in DOMAIN sorted :
                     SortKey(heap, sorted[p]) >= SortKey(heap, x)}
        n     == Cardinality(ahead)
    IN  SubSeq(sorted, 1, n) \o <<x>> \o SubSeq(sorted, n + 1, Len(sorted))

RECURSIVE SortByScore(_, _, _)
SortByScore(heap, list, k) ==
    IF k = 0 THEN <<>>
    ELSE CHOOSE s \in {InsertByScore(heap, prev, list[k]) :
                           prev \in {SortByScore(heap, list, k - 1)}} : TRUE

----------------------------------------------------------------------------
(* JobProcessor.process_jobs.  (A loop's state is bound as the one        *)
(* element of a set so that it is computed once.)                         *)

\* a loop body that also stores the title in the form it is hashed in
ProcessOneStoresTitle(st, i) ==
    LET job0 == DictSet(st.heap[i], "title",
                        Strip(Lower(Get(st.heap[i], "title", <<>>))))
        job1 == DictSet(job0, "location",
                        normalize_location(Get(job0, "location", <<>>)))
    IN  IF should_exclude_job(job1)
        THEN [st EXCEPT !.heap[i] = job1]
        ELSE LET job2 == DictSet(job1, "score", calculate_job_score(job1))
                 job3 == DictSet(job2, "processed_at", st.clock)
             IN  [heap           |-> [st.heap EXCEPT ![i] = job3],
                  processed_jobs |-> Append(st.processed_jobs, i),
                  clock          |-> st.clock + 1]

\* the body of the first for loop, for the record i
ProcessOne(st, i) ==
    LET job0 == st.heap[i]
        job1 == DictSet(job0, "location",
                        normalize_location(Get(job0, "location", <<>>)))
    IN  IF should_exclude_job(job1)
        THEN [st EXCEPT !.heap[i] = job1]
        ELSE LET job2 == DictSet(job1, "score", calculate_job_score(job1))
                 job3 == DictSet(job2, "processed_at", st.clock)
             IN  [heap           |-> [st.heap EXCEPT ![i] = job3],
                  processed_jobs |-> Append(st.processed_jobs, i),
                  clock          |-> st.clock + 1]

RECURSIVE ProcessLoop(_, _, _)
ProcessLoop(heap, now, k) ==
    IF k = 0 THEN [heap |-> heap, processed_jobs |-> <<>>, clock |-> now]
    ELSE CHOOSE st \in {ProcessOne(prev, k) :
                            prev \in {ProcessLoop(heap, now, k - 1)}} : TRUE

\* what a run leaves to compare with another run
Observation(heap, list, returned) ==
    [scores    |-> [j \in Range(list) |-> heap[j]["score"]],
     survivors |-> Range(returned)]

\* the keyword lists calculate_job_score iterates over
SCORE_KEYS == {"high_priority", "medium_priority", "low_priority",
               "preferred_skills", "preferred_locations"}

\* the record reaches a for loop over a keyword list that is None:
\* should_exclude_job iterates over exclude_keywords, and for a record it
\* does not exclude calculate_job_score iterates over the other five
RaisesAt(job) ==
    \/ "exclude_keywords" \in null_keys
    \/ SCORE_KEYS \cap null_keys # {} /\ ~should_exclude_job(job)

\* the places of the records at which the first for loop raises
RaisingPlaces(heap) ==
    IF null_keys = {} THEN {} ELSE {k \in DOMAIN heap : RaisesAt(heap[k])}

ProcessJobs ==
    /\ pc \in {"ready", "done"}
    /\ RaisingPlaces(jobs) = {}
    /\ Len(log) < MaxRuns
    /\ \E st \in {ProcessLoop(jobs, clock, Len(jobs))} :
       \E deduped \in {deduplicate_jobs(st.heap, st.processed_jobs)} :
       \E sorted \in {SortByScore(st.heap, deduped, Len(deduped))} :
           /\ jobs' = st.heap
           /\ processed_jobs' = st.processed_jobs
           /\ dedup_steps' = [k \in 1..(Len(st.processed_jobs) + 1) |->
                   DedupLoop(st.heap, st.processed_jobs, k - 1).unique_jobs]
           /\ unique_jobs' = deduped
           /\ result' = sorted
           /\ clock' = st.clock
           /\ hashes' = [j \in Range(st.processed_jobs) |->
                            generate_job_hash(st.heap[j])]
           /\ log' = Append(log, Observation(st.heap, st.processed_jobs, sorted))
           /\ pc' = "done"
    /\ UNCHANGED <<keywords_config, input>>
    /\ UNCHANGED <<permuted, config_vars, fetch_vars, report_vars, main_vars,
                   github_vars>>

Next == ProcessJobs

\* the processor before the first call, for the records js and the
\* document cfg
StartProcessor(js, cfg) ==
    /\ keywords_config = cfg
    /\ input = js
    /\ jobs = js
    /\ processed_jobs = <<>>
    /\ dedup_steps = <<>>
    /\ unique_jobs = <<>>
    /\ result = <<>>
    /\ clock = 0
    /\ hashes = EmptyDict
    /\ log = <<>>
    /\ pc = "ready"
    /\ permuted = <<>>
    /\ raw_config = cfg
    /\ null_keys = {}
    /\ error = "none"

\* the state before the first call, when nothing else is asked for
Start(js, cfg) ==
    /\ StartProcessor(js, cfg)
    /\ FetchIdle
    /\ ReportIdle
    /\ MainIdle
    /\ CommitIdle
    /\ IssueIdle

\* the lists of at most n records of pool
ListsOf(pool, n) == UNION {[1..m -> pool] : m \in 0..n}

\* the strings of at most n characters of alphabet
Strings(alphabet, n) == UNION {[1..m -> alphabet] : m \in 0..n}

----------------------------------------------------------------------------
(* The pipeline on lists of records that collide, tie, differ in score    *)
(* and are excluded.                                                       *)

\* a record as a fetch adapter builds it
Job(title, company, location, description) ==
    [title |-> title, company |-> company, location |-> location,
     description |-> description]

PipelineConfig ==
    [keywords |-> [high_priority |-> << <<"a","!">> >>,
                   medium_priority |-> <<>>,
                   low_priority |-> <<>>],
     preferred_skills |-> << <<"s">> >>,
     preferred_locations |-> << <<"S","F">> >>,
     exclude_keywords |-> << <<"z">> >>]

\* "a" and "A!" derive the same key and differ in score, "b" derives
\* another; descriptions of length 0, 1, 2, and one that holds the exclude
\* keyword
PipelineJobs ==
    {Job(t, <<"x">>, <<"N","Y">>, d) :
        t \in {<<"a">>, <<"A","!">>, <<"b">>},
        d \in {<<>>, <<"s">>, <<"s","s">>, <<"z">>}}

Init == \E js \in ListsOf(PipelineJobs, MaxJobs) : Start(js, PipelineConfig)

Spec == Init /\ [][Next]_vars

----------------------------------------------------------------------------
(* Properties of deduplicate_jobs and of the list process_jobs returns.   *)

Done == pc = "done"

Score(j) == jobs[j]["score"]

DescLen(j) == Len(Get(jobs[j], "description", <<>>))

\* the position of record j in the list handed to deduplicate_jobs
Pos(j) == CHOOSE p \in DOMAIN processed_jobs : processed_jobs[p] = j

\* the records of the list handed to deduplicate_jobs with the key of j
Group(j) == {i \in Range(processed_jobs) : hashes[i] = hashes[j]}

\* iteration k of the dedup loop took the replace branch
ReplaceStep(k) ==
    /\ k \in DOMAIN processed_jobs
    /\ Len(dedup_steps[k + 1]) = Len(dedup_steps[k])
    /\ dedup_steps[k + 1] # dedup_steps[k]

NoRepeatedKey(list) ==
    \A p, q \in DOMAIN list : p # q => hashes[list[p]] # hashes[list[q]]

\* C1: after every iteration of the dedup loop, replace steps included, and
\* in the list deduplicate_jobs returns, no two records have the same
\* derived key.
C1_NoRepeatedKey ==
    Done => /\ \A k \in DOMAIN dedup_steps : NoRepeatedKey(dedup_steps[k])
            /\ NoRepeatedKey(unique_jobs)

\* C1 witness: two replace steps happened, the second displacing the
\* record that the first brought in.
C1_Witness ==
    /\ Done
    /\ \E k1, k2 \in DOMAIN processed_jobs :
           /\ k1 < k2 /\ ReplaceStep(k1) /\ ReplaceStep(k2)
           /\ processed_jobs[k1] \in Range(dedup_steps[k2])
           /\ processed_jobs[k1] \notin Range(unique_jobs)

\* the first record, in the order of the list, of the longest description
\* among the records with the key of j
FirstLongest(j) ==
    CHOOSE i \in Group(j) :
        \A o \in Group(j) :
            \/ DescLen(o) < DescLen(i)
            \/ DescLen(o) = DescLen(i) /\ Pos(i) <= Pos(o)

C4_SortedStable ==
    Done =>
        \A p, q \in DOMAIN result :
            p < q =>
                /\ Score(result[p]) >= Score(result[q])
                /\ Score(result[p]) = Score(result[q]) => result[p] < result[q]

\* C4 witness: a replace step put a survivor behind a record of another
\* key that came after the displaced record, and the two have the same
\* score.
C4_Witness ==
    /\ Done
    /\ \E k \in DOMAIN processed_jobs :
           /\ ReplaceStep(k)
           /\ \E p, q \in DOMAIN result :
                  /\ p < q
                  /\ result[q] = processed_jobs[k]
                  /\ Score(result[p]) = Score(result[q])
                  /\ hashes[result[p]] # hashes[result[q]]
                  /\ \E d \in Group(result[q]) : d < result[p]

\* C8: every record of the returned list has a score of at least 1.
C8_ScoreAtLeastOne ==
    Done => \A p \in DOMAIN result :
                /\ "score" \in DOMAIN jobs[result[p]]
                /\ Score(result[p]) >= 1

\* C8 witness: a returned record that matched nothing has the score 1, and
\* another has more.
C8_Witness ==
    /\ Done
    /\ \E p, q \in DOMAIN result :
           Score(result[p]) = 1 /\ Score(result[q]) > 1

----------------------------------------------------------------------------
(* generate_job_hash on two records whose titles range over the strings   *)
(* of a letter, whitespace and punctuation.                               *)

HashTitles == Strings({"A", " ", "\t", "!"}, MaxTitleLen)

HashOtherTitles == Strings({"a", " ", "!"}, MaxTitleLen - 1)

HashCompanies == {<<"x">>, <<" ","X">>}

InitHash ==
    \E t1 \in HashTitles, t2 \in HashOtherTitles, c1 \in HashCompanies :
        Start(<<Job(t1, c1, <<"N","Y">>, <<>>),
                Job(t2, <<"x">>, <<"N","Y">>, <<"s">>)>>,
              EmptyDict)

SpecHash == InitHash /\ [][Next]_vars

IsAlnum(c) == c \in UpperChars \cup Range(LowerSeq) \cup Digits

KeepAlnumOrSpace(c) == IsAlnum(c) \/ IsSpace(c)

\* a title without its letter case, its surrounding whitespace, the length
\* of its whitespace runs and its non-alphanumeric, non-space characters
TitleCanon(t) == Strip(CollapseWs(Lower(SelectSeq(t, KeepAlnumOrSpace))))

CompanyCanon(c) == Strip(Lower(c))

\* two records that differ only in what TitleCanon and CompanyCanon drop
SameNormalized(a, b) ==
    /\ CompanyCanon(Get(a, "company", <<>>)) = CompanyCanon(Get(b, "company", <<>>))
    /\ TitleCanon(Get(a, "title", <<>>)) = TitleCanon(Get(b, "title", <<>>))

\* C3: two records whose companies are equal after lower-casing and
\* trimming, and whose titles differ only in letter case, surrounding
\* whitespace, length of whitespace runs and non-alphanumeric, non-space
\* characters, get the same key, and exactly one of them survives
\* deduplicate_jobs.
C3_SameKeyForVariants ==
    Done =>
        \A i, j \in Range(processed_jobs) :
            (i < j /\ SameNormalized(input[i], input[j])) =>
                /\ hashes[i] = hashes[j]
                /\ Cardinality({i, j} \cap Range(unique_jobs)) = 1

----------------------------------------------------------------------------
(* should_exclude_job on one record whose title and description range     *)
(* over short strings, under lists of exclude keywords that match within  *)
(* the title, within the description, or across the two.                  *)

ExcludeTexts == Strings({"a", "B", " "}, MaxTextLen)

ExcludeWords == {<<"a","B">>, <<"A"," ","b">>, <<"b","b">>}

ExcludeConfigs ==
    {[keywords |-> [high_priority |-> << <<"a">> >>],
      exclude_keywords |-> ws] : ws \in ListsOf(ExcludeWords, MaxExcludes)}

InitExclude ==
    \E t \in ExcludeTexts, d \in ExcludeTexts, cfg \in ExcludeConfigs :
        Start(<<Job(t, <<"x">>, <<"N","Y">>, d)>>, cfg)

SpecExclude == InitExclude /\ [][Next]_vars

\* record i was dropped by the exclusion step
Dropped(i) == i \notin Range(processed_jobs)

\* some exclude keyword, lower-cased, is a substring of text
AnyExcludeIn(text) ==
    \E k \in DOMAIN exclude_keywords : Contains(Lower(exclude_keywords[k]), text)

TitleOf(i) == Get(input[i], "title", <<>>)

DescriptionOf(i) == Get(input[i], "description", <<>>)

\* C5 as stated: a record is dropped if and only if an exclude keyword is a
\* substring of the lower-cased concatenation of its title and description,
\* and a dropped record is not in the returned list.
C5_ExcludedIffInConcatenation ==
    Done =>
        \A i \in DOMAIN input :
            /\ Dropped(i) <=> AnyExcludeIn(Lower(TitleOf(i) \o DescriptionOf(i)))
            /\ Dropped(i) => i \notin Range(result)

\* C5 amended: a record is dropped if and only if an exclude keyword is a
\* substring of the lower-cased title, one space, and description; a
\* dropped record is not in the returned list, whatever it would have
\* scored.
C5_ExcludedIffInTitleSpaceDescription ==
    Done =>
        \A i \in DOMAIN input :
            /\ Dropped(i) <=>
                   AnyExcludeIn(Lower(TitleOf(i) \o <<" ">> \o DescriptionOf(i)))
            /\ Dropped(i) => i \notin Range(result)

\* C5 witness: a record that would have scored 11 was dropped on a keyword
\* that matches only across the space between title and description.
C5_Witness ==
    /\ Done
    /\ \E i \in DOMAIN input :
           /\ Dropped(i)
           /\ i \notin Range(result)
           /\ calculate_job_score(jobs[i]) = 11
           /\ ~AnyExcludeIn(Lower(TitleOf(i)))
           /\ ~AnyExcludeIn(Lower(DescriptionOf(i)))
           /\ ~AnyExcludeIn(Lower(TitleOf(i) \o DescriptionOf(i)))

----------------------------------------------------------------------------
(* calculate_job_score on one record, under configurations in which a     *)
(* tier has no, one or two matching keywords and 0 to 5 skills match.     *)

ScoreTitles == {<<>>, <<"c">>, <<"A"," ","b">>}

ScoreDescriptions ==
    {<<>>, <<"s","t">>, <<"S","t","u">>, <<"s","t","u","v">>,
     <<"s","t","u","v","w">>}

ScoreLocations == {<<>>, <<"N","Y">>, <<"s","f"," ","n","y">>}

ScoreHigh == {<<>>, << <<"a">> >>, << <<"A">>, <<"b">> >>}

ScoreMedium == {<<>>, << <<"b">> >>, << <<"x">>, <<"C">> >>}

ScoreLow == {<<>>, << <<"a">>, <<"c">> >>}

\* the last two lists hold a skill twice; "b" is found in a title only
ScoreSkills ==
    {<<>>,
     << <<"s">>, <<"T">>, <<"b">> >>,
     << <<"s">>, <<"t">>, <<"u">>, <<"v">>, <<"w">> >>,
     << <<"s">>, <<"s">>, <<"s">> >>,
     << <<"t">>, <<"u">>, <<"v">>, <<"t">>, <<"u">> >>}

ScorePreferredLocations ==
    {<<>>, << <<"n","y">> >>, << <<"S","F">>, <<"N","Y">> >>}

ScoreConfigs ==
    {[keywords |-> [high_priority |-> h, medium_priority |-> m,
                    low_priority |-> l],
      preferred_skills |-> sk,
      preferred_locations |-> pl] :
        h \in ScoreHigh, m \in ScoreMedium, l \in ScoreLow,
        sk \in ScoreSkills, pl \in ScorePreferredLocations}

InitScore ==
    \E t \in ScoreTitles, d \in ScoreDescriptions, loc \in ScoreLocations,
       cfg \in ScoreConfigs :
        Start(<<Job(t, <<"x">>, loc, d)>>, cfg)

SpecScore == InitScore /\ [][Next]_vars

\* 1 when some keyword of the list, lower-cased, is a substring of text
Hit(keywords, text) ==
    IF \E k \in DOMAIN keywords : Contains(Lower(keywords[k]), text)
    THEN 1 ELSE 0

\* the entries of preferred_skills found in the description or the title
MatchingSkillEntries(i) ==
    {k \in DOMAIN preferred_skills :
        \/ Contains(Lower(preferred_skills[k]), Lower(Get(jobs[i], "description", <<>>)))
        \/ Contains(Lower(preferred_skills[k]), Lower(Get(jobs[i], "title", <<>>)))}

\* the distinct skills among them
MatchingSkills(i) == {preferred_skills[k] : k \in MatchingSkillEntries(i)}

Bonus(n) == IF n >= 5 THEN 5 ELSE IF n \in {3, 4} THEN 2 ELSE 0

\* the score but for its skill terms
TierPoints(i) ==
    LET title == Lower(Get(jobs[i], "title", <<>>))
    IN  1 + 10 * Hit(high_priority_keywords, title)
          + 5 * Hit(medium_priority_keywords, title)
          + 2 * Hit(low_priority_keywords, title)
          + 3 * Hit(preferred_locations, Lower(jobs[i]["location"]))

\* C6: the score of a record is 1, plus 10, 5 and 2 for the title tiers
\* with a matching keyword, plus the number of matching preferred skills,
\* plus the skill-count bonus, plus 3 for a matching preferred location;
\* a tier counts once however many of its keywords match.
C6_ScoreFormula ==
    Done =>
        \A i \in Range(processed_jobs) :
            Score(i) = TierPoints(i)
                       + Cardinality(MatchingSkillEntries(i))
                       + Bonus(Cardinality(MatchingSkillEntries(i)))

\* C6 witness: all three title tiers and the location tier fired, two
\* keywords of one tier matched, and skills matched.
C6_Witness ==
    /\ Done
    /\ \E i \in Range(processed_jobs) :
           /\ TierPoints(i) = 21
           /\ Cardinality({k \in DOMAIN high_priority_keywords :
                  Contains(Lower(high_priority_keywords[k]),
                           Lower(jobs[i]["title"]))}) = 2
           /\ Cardinality(MatchingSkillEntries(i)) = 5
           /\ Score(i) = 31

\* C7: each distinct preferred skill found in the description or the title
\* adds 1 once, and the bonus is 5 for at least 5 distinct skills, 2 for 3
\* or 4, and 0 otherwise.
C7_DistinctSkillsCounted ==
    Done =>
        \A i \in Range(processed_jobs) :
            Score(i) = TierPoints(i)
                       + Cardinality(MatchingSkills(i))
                       + Bonus(Cardinality(MatchingSkills(i)))

----------------------------------------------------------------------------
(* normalize_location, and a second run of process_jobs, on one record    *)
(* whose location is absent or is put together from a few parts.          *)

LocationParts ==
    {<<" ">>, <<"N","Y">>, <<"-"," ","U","S">>,
     <<"R","e","m","o","t","e">>, <<" ","R","E","M","O">>, <<"T","E"," ">>,
     <<"a","n","y","w","h","e","r","e">>,
     <<"D","i","s","t","r","i","b","u","t","e","d">>}

RECURSIVE Concat(_)
Concat(parts) ==
    IF parts = <<>> THEN <<>> ELSE Head(parts) \o Concat(Tail(parts))

LocationInputs == {Concat(ps) : ps \in ListsOf(LocationParts, MaxLocationParts)}

\* a record without the key 'company'
JobWithoutCompany(title, location, description) ==
    [title |-> title, location |-> location, description |-> description]

\* a record without the key 'location'
JobWithoutLocation(title, company, description) ==
    [title |-> title, company |-> company, description |-> description]

LocationJobs ==
    {Job(<<"a">>, <<"x">>, loc, <<>>) : loc \in LocationInputs}
        \cup {JobWithoutLocation(<<"a">>, <<"x">>, <<>>)}

LocationConfigs ==
    {[preferred_locations |-> pl] :
        pl \in {<<>>, << <<"r","e","m","o","t","e">> >>,
                << <<"N","Y">>, <<"U","n","k","n","o","w","n">> >> }}

InitLocation ==
    \E j \in LocationJobs, cfg \in LocationConfigs : Start(<<j>>, cfg)

SpecLocation == InitLocation /\ [][Next]_vars

FirstRunDone == Len(log) = 1

HasLocation(i) == "location" \in DOMAIN input[i]

\* the string holds remote, anywhere or distributed, in any letter case
NamesRemote(location) ==
    \/ Contains(<<"r","e","m","o","t","e">>, Lower(location))
    \/ Contains(<<"a","n","y","w","h","e","r","e">>, Lower(location))
    \/ Contains(<<"d","i","s","t","r","i","b","u","t","e","d">>, Lower(location))

\* C9: normalize_location gives "Unknown" for an empty or absent location,
\* "Remote" for one that holds remote, anywhere or distributed in any
\* letter case, and otherwise the location with its surrounding whitespace
\* trimmed.
C9_NormalizeLocation ==
    FirstRunDone =>
        \A i \in DOMAIN input :
            jobs[i]["location"] =
                IF ~HasLocation(i) \/ input[i]["location"] = <<>>
                THEN <<"U","n","k","n","o","w","n">>
                ELSE IF NamesRemote(input[i]["location"])
                     THEN <<"R","e","m","o","t","e">>
                     ELSE Strip(input[i]["location"])

\* C9 witness: a location with whitespace around it that names remote in
\* upper case became "Remote".
C9_Witness ==
    /\ FirstRunDone
    /\ \E i \in DOMAIN input :
           /\ HasLocation(i)
           /\ input[i]["location"] # <<>>
           /\ IsSpace(Head(input[i]["location"]))
           /\ Contains(<<"R","E","M","O","T","E">>, input[i]["location"])
           /\ jobs[i]["location"] = <<"R","e","m","o","t","e">>

\* C10: a second run of process_jobs on the records the first run left
\* gives every record the score, and returns the set of records, of the
\* first run.
C10_SecondRunSame ==
    \A r \in DOMAIN log :
        /\ log[r].scores = log[1].scores
        /\ log[r].survivors = log[1].survivors

----------------------------------------------------------------------------
(* process_jobs on the same records in another order.  A second call is   *)
(* made on a fresh copy of input, reordered by a permutation, and what it *)
(* leaves before the final sort is kept under the records' places in      *)
(* input, so that it can be compared with the first call on input itself. *)

\* the place in input of the record at place k of the reordered copy
PlaceOf(order, k) == order[k]

\* what the call leaves: the score of every record that passed the filter,
\* the records that survive deduplication, and their keys and lengths
PermutedObservation(order, heap, list, deduped, returned) ==
    [order     |-> order,
     scores    |-> [i \in {PlaceOf(order, k) : k \in Range(list)} |->
                       heap[CHOOSE k \in Range(list) :
                                PlaceOf(order, k) = i]["score"]],
     survivors |-> {PlaceOf(order, k) : k \in Range(deduped)},
     kept      |-> {<<generate_job_hash(heap[k]),
                      Len(Get(heap[k], "description", <<>>))>> :
                        k \in Range(deduped)},
     returned  |-> [k \in DOMAIN returned |-> PlaceOf(order, returned[k])]]

\* process_jobs called, after the calls on input, on a reordered copy of it
ProcessPermuted ==
    /\ RaisingPlaces(input) = {}
    /\ Len(log) = MaxRuns
    /\ permuted = <<>>
    /\ \E order \in Permutations(DOMAIN input) :
       \E copy \in {[k \in DOMAIN input |-> input[order[k]]]} :
       \E st \in {ProcessLoop(copy, 0, Len(copy))} :
       \E deduped \in {deduplicate_jobs(st.heap, st.processed_jobs)} :
       \E sorted \in {SortByScore(st.heap, deduped, Len(deduped))} :
           permuted' = <<PermutedObservation(order, st.heap, st.processed_jobs,
                                             deduped, sorted)>>
    /\ UNCHANGED <<processor_vars, config_vars, fetch_vars, report_vars,
                   main_vars,
                   github_vars>>

NextOrder == ProcessJobs \/ ProcessPermuted

\* "a" and "A!" derive the same key and differ in score, "b" derives
\* another; two records of a key tie for the longest description, and one
\* record holds the exclude keyword
OrderJobs ==
    {Job(<<"a">>, <<"x">>, <<"N","Y">>, <<>>),
     Job(<<"a">>, <<"x">>, <<"N","Y">>, <<"s">>),
     Job(<<"A","!">>, <<"x">>, <<"N","Y">>, <<"s">>),
     Job(<<"b">>, <<"x">>, <<"N","Y">>, <<"s">>),
     Job(<<"b">>, <<"x">>, <<"N","Y">>, <<"z">>)}

InitOrder == \E js \in ListsOf(OrderJobs, MaxJobs) : Start(js, PipelineConfig)

SpecOrder == InitOrder /\ [][NextOrder]_vars

\* the first call on input and the call on the reordered copy both returned
BothRan == Len(log) >= 1 /\ permuted # <<>>

\* the key and the description length of the survivors of the first call
KeptFirst ==
    {<<generate_job_hash(input[i]), Len(Get(input[i], "description", <<>>))>> :
        i \in log[1].survivors}

\* two records that passed the filter tie for the longest description of
\* their key
TiedForLongest(i, j) ==
    /\ i # j
    /\ generate_job_hash(input[i]) = generate_job_hash(input[j])
    /\ DescLen(i) = DescLen(j)
    /\ \A k \in DOMAIN log[1].scores :
           generate_job_hash(input[k]) = generate_job_hash(input[i])
               => DescLen(k) <= DescLen(i)

NoTie ==
    \A i, j \in DOMAIN log[1].scores : ~TiedForLongest(i, j)

\* the records at the places of survivors, as they were handed in, each
\* with the score the call gave it
Surviving(observation) ==
    {<<input[i], observation.scores[i]>> : i \in observation.survivors}

----------------------------------------------------------------------------
(* The fields process_jobs writes.  The records differ in whether the     *)
(* location is there, is already in normal form, or is changed by         *)
(* normalize_location; some are excluded and some lose to a duplicate.    *)

FrameJobs ==
    {Job(<<"a">>, <<"x">>, <<" ","N","Y">>, <<>>),
     Job(<<"a">>, <<"x">>, <<"N","Y">>, <<"s">>),
     Job(<<"A","!">>, <<"x">>, <<"r","e","m","o","t","e"," ","U","S">>, <<"s">>),
     Job(<<"b">>, <<"x">>, <<" ","N","Y">>, <<"z">>),
     JobWithoutLocation(<<"b">>, <<"x">>, <<>>)}

InitFrame == \E js \in ListsOf(FrameJobs, MaxJobs) : Start(js, PipelineConfig)

SpecFrame == InitFrame /\ [][Next]_vars

\* the fields process_jobs attaches to a record it scores
ADDED_FIELDS == {"score", "processed_at"}

\* the record i has every field of fields as it was handed in
Untouched(i, fields) == \A k \in fields : jobs[i][k] = input[i][k]

\* the record i was scored and lost to a record of the same key
LostToDuplicate(i) ==
    i \in Range(processed_jobs) /\ i \notin Range(result)

\* C12 as stated: process_jobs changes no field of any record handed in
\* other than the two it adds, score and processed_at, whether the record
\* reaches the output or is dropped by the exclusion or by deduplication.
C12_OnlyScoreAndTimestamp ==
    Done => \A i \in DOMAIN jobs :
                /\ DOMAIN jobs[i] \subseteq DOMAIN input[i] \cup ADDED_FIELDS
                /\ Untouched(i, DOMAIN input[i])

\* C12 amended: process_jobs writes three fields and no other: location,
\* which it sets on every record to its normalized form, also on a record
\* it then excludes, and score and processed_at, which it sets on every
\* record that is not excluded, also on one that then loses to a
\* duplicate; an excluded record gets neither of these two.
C12_OnlyLocationScoreAndTimestamp ==
    Done => \A i \in DOMAIN jobs :
                /\ Untouched(i, DOMAIN input[i] \ {"location"})
                /\ FirstRunDone =>
                       jobs[i]["location"] =
                           normalize_location(Get(input[i], "location", <<>>))
                /\ IF Dropped(i)
                   THEN DOMAIN jobs[i] = DOMAIN input[i] \cup {"location"}
                   ELSE DOMAIN jobs[i] =
                            DOMAIN input[i] \cup {"location"} \cup ADDED_FIELDS

\* a call on an excluded record, a record that lost to a duplicate and a
\* record that was returned, each with a location the call changed
C12_Witness ==
    /\ FirstRunDone
    /\ \E i, j, k \in DOMAIN jobs :
          /\ Dropped(i) /\ LostToDuplicate(j) /\ k \in Range(result)
          /\ \A r \in {i, j, k} :
                 Get(input[r], "location", <<>>) # jobs[r]["location"]

----------------------------------------------------------------------------
(* Records that lack fields.  A record is a dict, and a field that is     *)
(* missing is a key that is not in its DOMAIN.                            *)

\* the string fields process_jobs reads
STRING_FIELDS == {"title", "company", "location", "description"}

\* the record with only the fields of present
Restrict(job, present) == [k \in present |-> job[k]]

PartialBase == Job(<<"A","!">>, <<"x">>, <<"S","F">>, <<"s">>)

\* every record made of a subset of the fields of PartialBase, and two
\* complete records: one is excluded, one collides with PartialBase
PartialJobs ==
    {Restrict(PartialBase, present) : present \in SUBSET STRING_FIELDS}
        \cup {Job(<<"a">>, <<"x">>, <<"S","F">>, <<"z">>),
              Job(<<"a">>, <<"x">>, <<"N","Y">>, <<"s","s">>)}

InitPartial ==
    \E js \in ListsOf(PartialJobs, MaxPartialJobs) : Start(js, PipelineConfig)

SpecPartial == InitPartial /\ [][Next]_vars

\* the record with the empty string for every string field it lacks
Filled(job) ==
    [k \in DOMAIN job \cup STRING_FIELDS |->
        IF k \in DOMAIN job THEN job[k] ELSE <<>>]

\* the record as the loop body scores it: the location is normalized first
Normalized(job) ==
    [job EXCEPT !["location"] = normalize_location(job["location"])]

LacksField(i) == STRING_FIELDS \ DOMAIN input[i] # {}

\* C13: a record that lacks any subset of the fields title, company,
\* location and description never keeps process_jobs from returning: it is
\* normalized, filtered, scored and given its key as the record that has
\* the empty string in each missing field, and the other records of the
\* list are processed as well.  (No record reaches a statement that
\* raises, and no exception reaches the caller.)
C13_MissingFieldsAsEmpty ==
    /\ RaisingPlaces(jobs) = {}
    /\ error = "none"
    /\ FirstRunDone =>
           \A i \in DOMAIN input :
               LET filled == Filled(input[i])
               IN  /\ jobs[i]["location"] = normalize_location(filled["location"])
                   /\ Dropped(i) <=> should_exclude_job(filled)
                   /\ ~Dropped(i) =>
                          /\ Score(i) = calculate_job_score(Normalized(filled))
                          /\ hashes[i] = generate_job_hash(filled)
                          /\ \E j \in Range(result) : hashes[j] = hashes[i]

\* a call on a record without any field, followed by a complete record
\* that is scored and returned as well
C13_Witness ==
    /\ FirstRunDone
    /\ Len(input) = 2
    /\ DOMAIN input[1] = {}
    /\ ~LacksField(2)
    /\ Range(result) = {1, 2}
    /\ Score(1) = 1
    /\ Score(2) > 1

----------------------------------------------------------------------------
(* A keyword document of the wrong type.  The document is what the YAML   *)
(* loader returned: a value that carries its type.  JobProcessor.__init__ *)
(* reads it with .get, which only a dict has, and stores whatever value   *)
(* each key holds; the for loops of should_exclude_job and of             *)
(* calculate_job_score then iterate over that value: over the entries of  *)
(* a list, over the characters of a string, and raising on None.          *)
(* Construct leaves in keywords_config what each stored value yields when *)
(* it is iterated over, and in null_keys the keys whose value is None.    *)

Null == [type |-> "null"]

Str(value) == [type |-> "str", value |-> value]

List(value) == [type |-> "list", value |-> value]

Dict(items) == [type |-> "dict", items |-> items]

\* the keys __init__ reads in the keywords section and at the top level
TIER_KEYS == {"high_priority", "medium_priority", "low_priority"}

TOP_KEYS == {"preferred_skills", "preferred_locations", "exclude_keywords"}

\* keywords_config.get('keywords', {})
KeywordsSection(raw) == Get(raw.items, "keywords", Dict(EmptyDict))

\* a .get on a value that is not a dict raises AttributeError
ConstructRaises(raw) ==
    \/ raw.type # "dict"
    \/ KeywordsSection(raw).type # "dict"

\* d.get(k, []), the value __init__ stores
Stored(d, k) == Get(d.items, k, List(<<>>))

\* what a for loop over the stored value yields
Iterated(v) ==
    CASE v.type = "list" -> v.value
      [] v.type = "str"  -> [i \in DOMAIN v.value |-> <<v.value[i]>>]
      [] v.type = "null" -> <<>>

\* JobProcessor.__init__
Construct ==
    /\ pc = "new"
    /\ IF ConstructRaises(raw_config)
       THEN /\ error' = "AttributeError"
            /\ pc' = "failed"
            /\ UNCHANGED <<keywords_config, null_keys>>
       ELSE /\ keywords_config' =
                [k \in TOP_KEYS |-> Iterated(Stored(raw_config, k))] @@
                [keywords |->
                    [k \in TIER_KEYS |->
                        Iterated(Stored(KeywordsSection(raw_config), k))]]
            /\ null_keys' =
                {k \in TOP_KEYS : Stored(raw_config, k).type = "null"} \cup
                {k \in TIER_KEYS :
                    Stored(KeywordsSection(raw_config), k).type = "null"}
            /\ pc' = "ready"
            /\ UNCHANGED error
    /\ UNCHANGED <<input, jobs, processed_jobs, dedup_steps, unique_jobs,
                   result, clock, hashes, log, permuted, raw_config>>
    /\ UNCHANGED <<fetch_vars, report_vars, main_vars,
                   github_vars>>

\* process_jobs when a record reaches a for loop over None: the records
\* before it are processed, its location is normalized (line 142), the
\* TypeError leaves process_jobs and nothing is returned
ProcessJobsRaises ==
    /\ pc \in {"ready", "done"}
    /\ RaisingPlaces(jobs) # {}
    /\ Len(log) < MaxRuns
    /\ \E k \in {CHOOSE k \in RaisingPlaces(jobs) :
                    \A other \in RaisingPlaces(jobs) : k <= other} :
       \E st \in {ProcessLoop(jobs, clock, k - 1)} :
           /\ jobs' = [st.heap EXCEPT ![k] =
                          DictSet(@, "location",
                              normalize_location(Get(@, "location", <<>>)))]
           /\ clock' = st.clock
    /\ error' = "TypeError"
    /\ pc' = "failed"
    /\ UNCHANGED <<keywords_config, input, processed_jobs, dedup_steps,
                   unique_jobs, result, hashes, log, permuted, raw_config,
                   null_keys>>
    /\ UNCHANGED <<fetch_vars, report_vars, main_vars,
                   github_vars>>

NextConfig == Construct \/ ProcessJobs \/ ProcessJobsRaises

\* the values a key of the document may hold: a list of strings, a string,
\* None, or no value at all (the key is absent)
Typings(list, string) == {<<List(list)>>, <<Str(string)>>, <<Null>>, <<>>}

\* the dict with the key k when the typing t gives it a value
Item(k, t) == IF t = <<>> THEN EmptyDict ELSE [x \in {k} |-> t[1]]

\* no document at all, a keywords section that is not a dict, and the
\* documents whose keys high_priority, preferred_skills and
\* exclude_keywords are each a list, a string, None or absent
RawConfigs ==
    {Null}
      \cup {Dict(Item("keywords", <<section>>)) :
                section \in {Null, Str(<<"a">>), List(<< <<"a">> >>)}}
      \cup {Dict(Item("keywords", <<Dict(Item("high_priority", high))>>)
                   @@ Item("preferred_skills", skills)
                   @@ Item("exclude_keywords", exclude)) :
                high \in Typings(<< <<"a","!">> >>, <<"a","!">>),
                skills \in Typings(<< <<"s">> >>, <<"s","b">>),
                exclude \in Typings(<< <<"z">> >>, <<"z">>)}

ConfigJobs ==
    {Job(<<"a","!">>, <<"x">>, <<"N","Y">>, <<"s">>),
     Job(<<"b">>, <<"x">>, <<"N","Y">>, <<"z">>),
     Job(<<"b">>, <<"x">>, <<"N","Y">>, <<>>)}

InitConfig ==
    /\ raw_config \in RawConfigs
    /\ input \in ListsOf(ConfigJobs, MaxJobs)
    /\ jobs = input
    /\ keywords_config = EmptyDict
    /\ null_keys = {}
    /\ error = "none"
    /\ pc = "new"
    /\ processed_jobs = <<>>
    /\ dedup_steps = <<>>
    /\ unique_jobs = <<>>
    /\ result = <<>>
    /\ clock = 0
    /\ hashes = EmptyDict
    /\ log = <<>>
    /\ permuted = <<>>
    /\ FetchIdle
    /\ ReportIdle
    /\ MainIdle
    /\ CommitIdle
    /\ IssueIdle

SpecConfig == InitConfig /\ [][NextConfig]_vars

\* a value that is there and is not a list
WrongType(d, k) == k \in DOMAIN d.items /\ d.items[k].type # "list"

\* the document is absent, or its keywords section or one of the keys the
\* processor reads holds a value of the wrong type
Malformed(raw) ==
    \/ ConstructRaises(raw)
    \/ \E k \in TOP_KEYS : WrongType(raw, k)
    \/ \E k \in TIER_KEYS : WrongType(KeywordsSection(raw), k)

\* C14: under a malformed keyword document (absent, or a key that holds a
\* string or None where a list of strings belongs) constructing or running
\* the processor fails with an error: no call of process_jobs returns
\* records that were filtered and scored with the keyword sets such a
\* document leaves.
C14_MalformedConfigFails ==
    Malformed(raw_config) => ~(pc = "done" /\ result # <<>>)

----------------------------------------------------------------------------
(* Keyword documents that lack keys: every document made of a subset of   *)
(* the keys of one complete document, the empty document among them.      *)

CompleteConfig ==
    [keywords |-> [high_priority |-> << <<"a">> >>,
                   medium_priority |-> << <<"b">> >>,
                   low_priority |-> << <<"c">> >>],
     preferred_skills |-> << <<"s">> >>,
     preferred_locations |-> << <<"N","Y">> >>,
     exclude_keywords |-> << <<"z">> >>]

SparseConfigs ==
    {Restrict(CompleteConfig, top) : top \in SUBSET TOP_KEYS}
      \cup {Restrict(CompleteConfig, top) @@
                [keywords |-> Restrict(CompleteConfig["keywords"], tiers)] :
                top \in SUBSET TOP_KEYS, tiers \in SUBSET TIER_KEYS}

\* a record for each title tier and for none, with a description that
\* holds the skill or the exclude keyword
SparseJobs ==
    {Job(t, <<"x">>, <<"N","Y">>, d) :
        t \in {<<"a">>, <<"b">>, <<"c">>, <<"d">>}, d \in {<<"s">>, <<"z">>}}

InitSparse ==
    \E j \in SparseJobs, cfg \in SparseConfigs : Start(<<j>>, cfg)

SpecSparse == InitSparse /\ [][Next]_vars

\* the list of CompleteConfig under a key the document has, and the empty
\* list under a key it lacks
ListOrEmpty(k) ==
    IF k \in TOP_KEYS
    THEN IF k \in DOMAIN keywords_config THEN CompleteConfig[k] ELSE <<>>
    ELSE IF "keywords" \in DOMAIN keywords_config
              /\ k \in DOMAIN keywords_config["keywords"]
         THEN CompleteConfig["keywords"][k]
         ELSE <<>>

\* the score of the record i when every missing key is the empty list
ScoreWithEmptyLists(i) ==
    LET title == Lower(TitleOf(i))
        text  == Lower(DescriptionOf(i))
        skills == Hit(ListOrEmpty("preferred_skills"), text)
                      + (1 - Hit(ListOrEmpty("preferred_skills"), text))
                            * Hit(ListOrEmpty("preferred_skills"), title)
    IN  1 + 10 * Hit(ListOrEmpty("high_priority"), title)
          + 5 * Hit(ListOrEmpty("medium_priority"), title)
          + 2 * Hit(ListOrEmpty("low_priority"), title)
          + skills
          + 3 * Hit(ListOrEmpty("preferred_locations"), Lower(jobs[i]["location"]))

\* C15: a key the document lacks (a keyword tier, preferred_skills,
\* preferred_locations, exclude_keywords, or the whole keywords section)
\* behaves as the empty list; under the empty document process_jobs
\* excludes no record and gives every record the score 1.
C15_AbsentKeysAsEmpty ==
    Done =>
        \A i \in DOMAIN jobs :
            /\ Dropped(i) <=>
                   Hit(ListOrEmpty("exclude_keywords"),
                       Lower(TitleOf(i) \o <<" ">> \o DescriptionOf(i))) = 1
            /\ ~Dropped(i) => Score(i) = ScoreWithEmptyLists(i)
            /\ keywords_config = EmptyDict => ~Dropped(i) /\ Score(i) = 1

\* a call under the empty document on a record that the complete document
\* puts in the high tier and excludes
C15_Witness ==
    /\ Done
    /\ keywords_config = EmptyDict
    /\ TitleOf(1) = <<"a">>
    /\ Contains(<<"z">>, DescriptionOf(1))
    /\ result = <<1>>
    /\ Score(1) = 1

----------------------------------------------------------------------------
(* The fetch adapters (src/fetchers.py).  What the server answers is the  *)
(* environment of a call: a transport failure, an error status, a body    *)
(* that is not JSON, or a JSON value, which carries its type as the       *)
(* keyword document above does.  A statement either gives a value or      *)
(* raises, and the first exception of a try body leaves it.               *)

Raise(exc) == [exc |-> exc]

Return(value) == [exc |-> "none", value |-> value]

Failed(outcome) == outcome.exc # "none"

\* the exception classes that derive from requests' RequestException
REQUEST_EXCEPTIONS == {"ConnectionError", "HTTPError"}

\* what response.json() raises on a body that is not JSON
JSON_ERROR == "JSONDecodeError"

Failure(kind) == [kind |-> kind]

Json(payload) == [kind |-> "json", payload |-> payload]

\* session.get, raise_for_status and response.json()
Receive(response) ==
    IF response.kind = "json" THEN Return(response.payload)
    ELSE Raise(response.kind)

\* bool(v)
Truthy(v) ==
    CASE v.type = "null" -> FALSE
      [] v.type = "str"  -> v.value # <<>>
      [] v.type = "list" -> v.value # <<>>
      [] v.type = "dict" -> DOMAIN v.items # {}

\* a key of a dict met by a for loop: a string (its text is never read)
A_KEY == Str(<<"k">>)

\* for x in v: the entries of a list, the characters of a string, the keys
\* of a dict; None is not iterable
IterationOf(v) ==
    CASE v.type = "list" -> Return(v.value)
      [] v.type = "str"  -> Return([i \in DOMAIN v.value |-> Str(<<v.value[i]>>)])
      [] v.type = "dict" ->
             Return([i \in 1..Cardinality(DOMAIN v.items) |-> A_KEY])
      [] v.type = "null" -> Raise("TypeError")

\* v.get(k, default): only a dict has .get
GetItem(v, k, default) ==
    IF v.type = "dict" THEN Return(Get(v.items, k, default))
    ELSE Raise("AttributeError")

\* the loop over the entries: the list of the records, or the exception of
\* the first entry that raises
Collect(outcomes) ==
    IF \E i \in DOMAIN outcomes : Failed(outcomes[i])
    THEN outcomes[CHOOSE i \in DOMAIN outcomes :
                      /\ Failed(outcomes[i])
                      /\ \A j \in 1..(i - 1) : ~Failed(outcomes[j])]
    ELSE Return([i \in DOMAIN outcomes |-> outcomes[i].value])

\* a handler that has no except Exception clause
HandleRequestExceptionsOnly(outcome) ==
    IF ~Failed(outcome) THEN [raised |-> "none", jobs |-> outcome.value]
    ELSE IF outcome.exc \in REQUEST_EXCEPTIONS
         THEN [raised |-> "none", jobs |-> <<>>]
         ELSE [raised |-> outcome.exc, jobs |-> <<>>]

\* the two except clauses of fetch_jobs: both log and return []
Handle(outcome) ==
    IF ~Failed(outcome) THEN [raised |-> "none", jobs |-> outcome.value]
    ELSE IF outcome.exc \in REQUEST_EXCEPTIONS
         THEN [raised |-> "none", jobs |-> <<>>]
         ELSE [raised |-> "none", jobs |-> <<>>]

\* GreenhouseFetcher.fetch_jobs: the dict built for one entry
GreenhouseRecord(job, company_name) ==
    IF job.type # "dict" THEN Raise("AttributeError")
    ELSE LET location == Get(job.items, "location", Dict(EmptyDict))
         IN  IF location.type # "dict" THEN Raise("AttributeError")
             ELSE Return([id       |-> Get(job.items, "id", Null),
                          title    |-> Get(job.items, "title", Str(<<>>)),
                          company  |-> company_name,
                          location |-> Get(location.items, "name", Str(<<>>)),
                          source   |-> "greenhouse"])

\* GreenhouseFetcher.fetch_jobs: the try body
GreenhouseBody(response, company_name) ==
    LET jobs_data == Receive(response)
    IN  IF Failed(jobs_data) THEN jobs_data
        ELSE LET listed == GetItem(jobs_data.value, "jobs", List(<<>>))
             IN  IF Failed(listed) THEN listed
                 ELSE LET entries == IterationOf(listed.value)
                      IN  IF Failed(entries) THEN entries
                          ELSE Collect([i \in DOMAIN entries.value |->
                                   GreenhouseRecord(entries.value[i],
                                                    company_name)])

GreenhouseFetcher_fetch_jobs(response, company_name) ==
    Handle(GreenhouseBody(response, company_name))

\* ', '.join(names)
RECURSIVE JoinNames(_)
JoinNames(names) ==
    IF names = <<>> THEN <<>>
    ELSE IF Len(names) = 1 THEN names[1].value
    ELSE names[1].value \o <<",", " ">> \o JoinNames(Tail(names))

\* LeverFetcher.fetch_jobs: the location of one entry (line 85)
LeverLocation(job) ==
    LET categories == Get(job.items, "categories", Null)
    IN  IF ~Truthy(categories) THEN Return(Str(<<>>))
        ELSE LET locations == GetItem(categories, "location", List(<<>>))
             IN  IF Failed(locations) THEN locations
                 ELSE LET entries == IterationOf(locations.value)
                      IN  IF Failed(entries) THEN entries
                          ELSE LET names == Collect([i \in DOMAIN entries.value |->
                                       GetItem(entries.value[i], "name", Str(<<>>))])
                               IN  IF Failed(names) THEN names
                                   ELSE IF \E i \in DOMAIN names.value :
                                               names.value[i].type # "str"
                                        THEN Raise("TypeError")
                                        ELSE Return(Str(JoinNames(names.value)))

\* LeverFetcher.fetch_jobs: the dict built for one entry
LeverRecord(job, company_name) ==
    IF job.type # "dict" THEN Raise("AttributeError")
    ELSE LET location == LeverLocation(job)
         IN  IF Failed(location) THEN location
             ELSE Return([id       |-> Get(job.items, "id", Null),
                          title    |-> Get(job.items, "text", Str(<<>>)),
                          company  |-> company_name,
                          location |-> location.value,
                          source   |-> "lever"])

\* LeverFetcher.fetch_jobs: the try body
LeverBody(response, company_name) ==
    LET listed == Receive(response)
    IN  IF Failed(listed) THEN listed
        ELSE LET entries == IterationOf(listed.value)
             IN  IF Failed(entries) THEN entries
                 ELSE Collect([i \in DOMAIN entries.value |->
                          LeverRecord(entries.value[i], company_name)])

LeverFetcher_fetch_jobs(response, company_name) ==
    Handle(LeverBody(response, company_name))

\* AshbyFetcher.fetch_jobs: the dict built for one entry
AshbyRecord(job, company_name) ==
    IF job.type # "dict" THEN Raise("AttributeError")
    ELSE Return([id       |-> Get(job.items, "id",
                                  Get(job.items, "jobId", Str(<<>>))),
                 title    |-> Get(job.items, "title", Str(<<>>)),
                 company  |-> company_name,
                 location |-> Get(job.items, "location",
                                  Get(job.items, "locationName", Str(<<>>))),
                 source   |-> "ashby"])

\* AshbyFetcher.fetch_jobs: the try body
AshbyBody(response, company_name) ==
    LET jobs_data == Receive(response)
    IN  IF Failed(jobs_data) THEN jobs_data
        ELSE LET listed == IF jobs_data.value.type = "dict"
                           THEN Get(jobs_data.value.items, "jobs", List(<<>>))
                           ELSE jobs_data.value
                 entries == IterationOf(listed)
             IN  IF Failed(entries) THEN entries
                 ELSE Collect([i \in DOMAIN entries.value |->
                          AshbyRecord(entries.value[i], company_name)])

AshbyFetcher_fetch_jobs(response, company_name) ==
    Handle(AshbyBody(response, company_name))

\* a fetch_jobs call returns or raises
Finish(outcome) ==
    /\ fetched' = outcome.jobs
    /\ error' = outcome.raised
    /\ fetch_pc' = IF outcome.raised = "none" THEN "returned" ELSE "raised"
    /\ UNCHANGED <<processor_vars, permuted, raw_config, null_keys, call,
                   companies_config, responses, all_jobs>>
    /\ UNCHANGED <<report_vars, main_vars,
                   github_vars>>

GreenhouseFetchJobs ==
    /\ fetch_pc = "ready"
    /\ call.adapter = "greenhouse"
    /\ Finish(GreenhouseFetcher_fetch_jobs(call.response, call.company_name))

LeverFetchJobs ==
    /\ fetch_pc = "ready"
    /\ call.adapter = "lever"
    /\ Finish(LeverFetcher_fetch_jobs(call.response, call.company_name))

AshbyFetchJobs ==
    /\ fetch_pc = "ready"
    /\ call.adapter = "ashby"
    /\ Finish(AshbyFetcher_fetch_jobs(call.response, call.company_name))

NextAdapters == GreenhouseFetchJobs \/ LeverFetchJobs \/ AshbyFetchJobs

\* the entries of a Greenhouse answer: complete, without location, with a
\* null location, with a null title and a location without name, with a
\* location that is a string, and one that is not an object
GreenhouseComplete ==
    Dict([id |-> Str(<<"1">>), title |-> Str(<<"a">>),
          location |-> Dict([name |-> Str(<<"N","Y">>)])])

GreenhouseNoLocation == Dict([id |-> Str(<<"2">>), title |-> Str(<<"b">>)])

GreenhouseNullLocation ==
    Dict([id |-> Str(<<"3">>), title |-> Str(<<"c">>), location |-> Null])

GreenhouseNullTitle ==
    Dict([id |-> Str(<<"4">>), title |-> Null, location |-> Dict(EmptyDict)])

GreenhouseTextLocation ==
    Dict([id |-> Str(<<"5">>), title |-> Str(<<"e">>),
          location |-> Str(<<"N","Y">>)])

\* the entries of a Lever answer: complete, without categories, with
\* categories that lack the location list, with a null location list, with
\* a location that is a string, and one that is not an object
LeverComplete ==
    Dict([id |-> Str(<<"1">>), text |-> Str(<<"a">>),
          categories |-> Dict([location |->
              List(<<Dict([name |-> Str(<<"N","Y">>)]),
                     Dict([name |-> Str(<<"S","F">>)])>>)])])

LeverNoCategories == Dict([id |-> Str(<<"2">>), text |-> Str(<<"b">>)])

LeverNoLocationList ==
    Dict([id |-> Str(<<"3">>), text |-> Str(<<"c">>),
          categories |-> Dict([team |-> Str(<<"t">>)])])

LeverNullLocationList ==
    Dict([id |-> Str(<<"4">>), text |-> Str(<<"d">>),
          categories |-> Dict([location |-> Null])])

LeverTextLocation ==
    Dict([id |-> Str(<<"5">>), text |-> Str(<<"e">>),
          categories |-> Dict([location |-> Str(<<"N","Y">>)])])

\* the entries of an Ashby answer: complete, with the other names of the
\* fields, with nothing but an id, with null fields, and not an object
AshbyComplete ==
    Dict([id |-> Str(<<"1">>), title |-> Str(<<"a">>),
          location |-> Str(<<"N","Y">>)])

AshbyOtherNames ==
    Dict([jobId |-> Str(<<"2">>), title |-> Str(<<"b">>),
          locationName |-> Str(<<"S","F">>)])

AshbyOnlyId == Dict([id |-> Str(<<"3">>)])

AshbyNullFields ==
    Dict([id |-> Str(<<"4">>), title |-> Null, location |-> Null])

\* the entries that are complete or have fields missing or null, and no
\* field of another type than the vendor's
PARTIAL_ENTRIES ==
    {GreenhouseComplete, GreenhouseNoLocation, GreenhouseNullLocation,
     GreenhouseNullTitle,
     LeverComplete, LeverNoCategories, LeverNoLocationList,
     LeverNullLocationList,
     AshbyComplete, AshbyOtherNames, AshbyOnlyId, AshbyNullFields}

EntriesOf(adapter) ==
    CASE adapter = "greenhouse" ->
             {GreenhouseComplete, GreenhouseNoLocation, GreenhouseNullLocation,
              GreenhouseNullTitle, GreenhouseTextLocation, Null}
      [] adapter = "lever" ->
             {LeverComplete, LeverNoCategories, LeverNoLocationList,
              LeverNullLocationList, LeverTextLocation, Str(<<"x">>)}
      [] adapter = "ashby" ->
             {AshbyComplete, AshbyOtherNames, AshbyOnlyId, AshbyNullFields,
              Null}

\* the JSON values an answer may be: a list of entries, an object with the
\* entries under jobs, and values of other shapes
Payloads(entries) ==
    {List(l) : l \in ListsOf(entries, MaxEntries)}
      \cup {Dict([jobs |-> List(l)]) : l \in ListsOf(entries, MaxEntries)}
      \cup {Null, Str(<<>>), Str(<<"o","k">>), Dict(EmptyDict),
            Dict([jobs |-> Null]), Dict([message |-> Str(<<"n","o">>)])}

Responses(entries) ==
    {Failure(kind) : kind \in REQUEST_EXCEPTIONS \cup {JSON_ERROR}}
      \cup {Json(payload) : payload \in Payloads(entries)}

ADAPTERS == {"greenhouse", "lever", "ashby"}

InitAdapters ==
    /\ StartProcessor(<<>>, EmptyDict)
    /\ \E adapter \in ADAPTERS :
       \E response \in Responses(EntriesOf(adapter)) :
           call = [adapter |-> adapter, response |-> response,
                   company_name |-> Str(<<"x">>)]
    /\ fetched = <<>>
    /\ companies_config = <<>>
    /\ responses = <<>>
    /\ all_jobs = <<>>
    /\ fetch_pc = "ready"
    /\ ReportIdle
    /\ MainIdle
    /\ CommitIdle
    /\ IssueIdle

SpecAdapters == InitAdapters /\ [][NextAdapters]_vars

\* the server answered with a JSON value
Answered == call.response.kind = "json"

\* the value the adapter of the call takes the entries from
Listed ==
    LET payload == call.response.payload
    IN  IF call.adapter = "lever" THEN payload
        ELSE IF payload.type = "dict"
             THEN Get(payload.items, "jobs", List(<<>>))
             ELSE IF call.adapter = "ashby" THEN payload ELSE Null

\* the answer has the shape the adapter of the call expects: the entries
\* are in a list, where the vendor puts it, and each of them is an object
ExpectedShape ==
    /\ Answered
    /\ Listed.type = "list"
    /\ \A i \in DOMAIN Listed.value : Listed.value[i].type = "dict"

\* C16: fetch_jobs of the Greenhouse, Lever and Ashby adapters never
\* raises; on a transport failure, an error status, a body that is not
\* JSON and a JSON value of an unexpected shape it returns the empty list.
C16_FetchJobsNeverRaises ==
    /\ fetch_pc # "raised"
    /\ error = "none"
    /\ fetch_pc = "returned" /\ ~ExpectedShape => fetched = <<>>

\* a Greenhouse call answered by a bare list that holds a complete entry,
\* and which returned
C16_Witness ==
    /\ fetch_pc = "returned"
    /\ call.adapter = "greenhouse"
    /\ Answered
    /\ call.response.payload = List(<<GreenhouseComplete>>)
    /\ fetched = <<>>

\* C17: when entries of an answer have fields that are missing or null,
\* the adapter still returns a record for every entry of the answer, in
\* their order: an entry with a missing or null field does not lose the
\* other entries of the company.
C17_RecordForEveryEntry ==
    (/\ fetch_pc = "returned"
     /\ ExpectedShape
     /\ \A i \in DOMAIN Listed.value : Listed.value[i] \in PARTIAL_ENTRIES)
        => /\ Len(fetched) = Len(Listed.value)
           /\ \A i \in DOMAIN fetched :
                  fetched[i]["id"] \in {Get(Listed.value[i].items, "id", Null),
                                        Get(Listed.value[i].items, "jobId", Null)}

----------------------------------------------------------------------------
(* JobFetcherManager.fetch_all_jobs.  A company is an entry of the list   *)
(* of config/companies.yaml, a value that carries its type; the answer of *)
(* the server to the call made for it is kept beside it, in responses.    *)

GREENHOUSE == <<"g","r","e","e","n","h","o","u","s","e">>

LEVER == <<"l","e","v","e","r">>

ASHBY == <<"a","s","h","b","y">>

\* except Exception: continue, around the branch of one company; what the
\* branch adds to all_jobs
Extend(outcome) == IF outcome.raised = "none" THEN outcome.jobs ELSE <<>>

\* the try statement of one iteration (lines 175-199)
TryCompany(company, ats_type, company_name, response) ==
    CASE ats_type = GREENHOUSE ->
             IF Truthy(Get(company.items, "board_token", Null))
             THEN Extend(GreenhouseFetcher_fetch_jobs(response, company_name))
             ELSE <<>>
      [] ats_type = LEVER ->
             IF Truthy(Get(company.items, "board_url", Null))
             THEN Extend(LeverFetcher_fetch_jobs(response, company_name))
             ELSE <<>>
      [] ats_type = ASHBY ->
             IF Truthy(Get(company.items, "board_url", Null))
             THEN Extend(AshbyFetcher_fetch_jobs(response, company_name))
             ELSE <<>>
      [] OTHER -> <<>>

\* one iteration of the for loop: lines 170 and 171 are outside the try,
\* .get needs a dict and .lower() needs a string
FetchCompany(company, response) ==
    LET company_name == GetItem(company, "name", Null)
    IN  IF Failed(company_name) THEN company_name
        ELSE LET ats == Get(company.items, "ats", Str(<<>>))
             IN  IF ats.type # "str" THEN Raise("AttributeError")
                 ELSE Return(TryCompany(company, Lower(ats.value),
                                        company_name.value, response))

\* fetch_all_jobs: the lists of the companies one after the other, or the
\* exception of the first iteration that raises
fetch_all_jobs(companies, answers) ==
    LET outcomes == Collect([i \in DOMAIN companies |->
                        FetchCompany(companies[i], answers[i])])
    IN  IF Failed(outcomes) THEN [raised |-> outcomes.exc, jobs |-> <<>>]
        ELSE [raised |-> "none", jobs |-> Concat(outcomes.value)]

FetchAllJobs ==
    /\ fetch_pc = "ready"
    /\ call.adapter = "none"
    /\ \E outcome \in {fetch_all_jobs(companies_config, responses)} :
           /\ all_jobs' = outcome.jobs
           /\ error' = outcome.raised
           /\ fetch_pc' = IF outcome.raised = "none" THEN "returned"
                          ELSE "raised"
    /\ UNCHANGED <<processor_vars, permuted, raw_config, null_keys, call,
                   fetched, companies_config, responses>>
    /\ UNCHANGED <<report_vars, main_vars,
                   github_vars>>

NextFetchAll == FetchAllJobs

\* the answer with one complete entry in the shape the vendor uses
GoodAnswer(adapter) ==
    CASE adapter = "greenhouse" -> Json(Dict([jobs |-> List(<<GreenhouseComplete>>)]))
      [] adapter = "lever" -> Json(List(<<LeverComplete>>))
      [] adapter = "ashby" -> Json(List(<<AshbyComplete>>))

\* the board token and URL of a company that has them
LOCATOR == [board_token |-> Str(<<"t">>), board_url |-> Str(<<"u">>)]

\* a company with the ats value of typing (a string, null, or none at
\* all), with or without a board token and URL
Company(name, typing, locator) ==
    Dict([name |-> Str(name)] @@ Item("ats", typing) @@ locator)

\* companies of the three vendors, the ats value in mixed case, with and
\* without token and URL, answered well or by a failure; and companies
\* with an unknown, a missing and a null ats value
CompanyCases ==
    {<<Company(<<"g">>, <<Str(<<"G","r","e","e","n","H","o","u","s","e">>)>>,
               locator), answer>> :
        locator \in {LOCATOR, EmptyDict},
        answer \in {GoodAnswer("greenhouse"), Failure("ConnectionError")}}
      \cup {<<Company(<<"l">>, <<Str(LEVER)>>, locator), answer>> :
        locator \in {LOCATOR, EmptyDict},
        answer \in {GoodAnswer("lever"), Failure("HTTPError")}}
      \cup {<<Company(<<"a">>, <<Str(ASHBY)>>, locator), answer>> :
        locator \in {LOCATOR, EmptyDict},
        answer \in {GoodAnswer("ashby"), Failure(JSON_ERROR)}}
      \cup {<<Company(<<"o">>, typing, LOCATOR), GoodAnswer("lever")>> :
        typing \in {<<Str(<<"w","o","r","k","d","a","y">>)>>, <<Null>>, <<>>}}

InitFetchAll ==
    /\ StartProcessor(<<>>, EmptyDict)
    /\ \E cases \in ListsOf(CompanyCases, MaxCompanies) :
          /\ companies_config = [i \in DOMAIN cases |-> cases[i][1]]
          /\ responses = [i \in DOMAIN cases |-> cases[i][2]]
    /\ call = [adapter |-> "none"]
    /\ fetched = <<>>
    /\ all_jobs = <<>>
    /\ fetch_pc = "ready"
    /\ ReportIdle
    /\ MainIdle
    /\ CommitIdle
    /\ IssueIdle

SpecFetchAll == InitFetchAll /\ [][NextFetchAll]_vars

\* the adapter the ats value of the company selects, or "none"
Selected(company) ==
    LET ats == Get(company.items, "ats", Null)
    IN  IF ats.type # "str" THEN "none"
        ELSE CASE Lower(ats.value) = GREENHOUSE -> "greenhouse"
               [] Lower(ats.value) = LEVER -> "lever"
               [] Lower(ats.value) = ASHBY -> "ashby"
               [] OTHER -> "none"

HasLocator(company) ==
    IF Selected(company) = "greenhouse"
    THEN Truthy(Get(company.items, "board_token", Null))
    ELSE Truthy(Get(company.items, "board_url", Null))

\* what the company at place i is to contribute: the result of its
\* adapter, and nothing when it has no adapter or no token or URL
Contribution(i) ==
    LET company == companies_config[i]
        name    == company.items["name"]
    IN  IF Selected(company) = "none" \/ ~HasLocator(company) THEN <<>>
        ELSE CASE Selected(company) = "greenhouse" ->
                      GreenhouseFetcher_fetch_jobs(responses[i], name).jobs
               [] Selected(company) = "lever" ->
                      LeverFetcher_fetch_jobs(responses[i], name).jobs
               [] Selected(company) = "ashby" ->
                      AshbyFetcher_fetch_jobs(responses[i], name).jobs

\* C20: fetch_all_jobs never raises, and it returns, in the order of the
\* company list, the concatenation of the results of the adapter each
\* company's ats value selects, whatever its letter case; a company with
\* an unknown, missing or null ats value, without token or URL, or whose
\* adapter fails contributes nothing and does not keep the later
\* companies from being fetched.
C20_ConcatenationNeverRaises ==
    /\ fetch_pc # "raised"
    /\ fetch_pc = "returned" =>
           all_jobs = Concat([i \in DOMAIN companies_config |-> Contribution(i)])

----------------------------------------------------------------------------
(* JobReporter.generate_markdown_report (src/reporter.py): the section    *)
(* "All Jobs by Company".  The report is a file; what is kept of it is,   *)
(* for each company section, the count in its heading, the jobs listed    *)
(* under it (as places in the list handed in) and the count in its        *)
(* overflow note.  Writing the file may fail, and the handler re-raises.  *)

\* the value None, which is equal to no string
NONE == <<"None">>

\* the number of jobs a section lists
LISTED_PER_COMPANY == 10

\* ord(c), for a letter
Ord(c) ==
    IF c \in UpperChars
    THEN 64 + (CHOOSE i \in DOMAIN UpperSeq : UpperSeq[i] = c)
    ELSE 96 + (CHOOSE i \in DOMAIN LowerSeq : LowerSeq[i] = c)

\* a < b for two strings
RECURSIVE StrLess(_, _)
StrLess(a, b) ==
    IF a = <<>> THEN b # <<>>
    ELSE IF b = <<>> THEN FALSE
    ELSE IF Ord(a[1]) # Ord(b[1]) THEN Ord(a[1]) < Ord(b[1])
    ELSE StrLess(Tail(a), Tail(b))

\* sorted(names)
RECURSIVE SortedNames(_)
SortedNames(names) ==
    IF names = {} THEN <<>>
    ELSE LET first == CHOOSE m \in names :
                          \A other \in names \ {m} : StrLess(m, other)
         IN  <<first>> \o SortedNames(names \ {first})

\* the dict companies of lines 60-63: the number of jobs under each name
CountByCompany(list) ==
    [company \in {Get(list[p], "company", UNKNOWN) : p \in DOMAIN list} |->
        Cardinality({p \in DOMAIN list :
                        Get(list[p], "company", UNKNOWN) = company})]

\* one iteration of the loop of lines 112-123
CompanySection(list, company) ==
    LET Of(p) == Get(list[p], "company", NONE) = company
        company_jobs == SelectSeq([p \in DOMAIN list |-> p], Of)
        n == Len(company_jobs)
    IN  [company      |-> company,
         count        |-> n,
         company_jobs |-> company_jobs,
         listed       |-> SubSeq(company_jobs, 1,
                              IF n < LISTED_PER_COMPANY THEN n
                              ELSE LISTED_PER_COMPANY),
         note         |-> IF n > LISTED_PER_COMPANY
                          THEN <<n - LISTED_PER_COMPANY>> ELSE <<>>]

\* the sections of the report, in the order they are written
CompanySections(list) ==
    LET names == SortedNames(DOMAIN CountByCompany(list))
    IN  [k \in DOMAIN names |-> CompanySection(list, names[k])]

GenerateMarkdownReport ==
    /\ report_pc = "ready"
    /\ \E written \in BOOLEAN :
          IF written
          THEN /\ sections' = CompanySections(ranked)
               /\ report_pc' = "written"
               /\ UNCHANGED error
          ELSE /\ error' = "OSError"
               /\ report_pc' = "raised"
               /\ UNCHANGED sections
    /\ UNCHANGED <<processor_vars, permuted, raw_config, null_keys,
                   fetch_vars, ranked, main_vars,
                   github_vars>>

NextReport == GenerateMarkdownReport

ReportJob(company) == Job(<<"a">>, company, <<"N","Y">>, <<>>)

\* the jobs that are not of the company "x": of the company "y", of a
\* company named "Unknown", and without company
OddJobs ==
    {ReportJob(<<"y">>), ReportJob(UNKNOWN),
     JobWithoutCompany(<<"a">>, <<"N","Y">>, <<>>)}

\* the lists of jobs of the company "x", with at most one other job at
\* any place
ReportLists ==
    UNION {{[p \in 1..n |-> ReportJob(<<"x">>)]}
             \cup {[p \in 1..n |-> IF p = at THEN odd ELSE ReportJob(<<"x">>)] :
                      at \in 1..n, odd \in OddJobs} :
           n \in 0..MaxReportJobs}

InitReport ==
    /\ StartProcessor(<<>>, EmptyDict)
    /\ FetchIdle
    /\ MainIdle
    /\ CommitIdle
    /\ IssueIdle
    /\ ranked \in ReportLists
    /\ sections = <<>>
    /\ report_pc = "ready"

SpecReport == InitReport /\ [][NextReport]_vars

RECURSIVE SumOfCounts(_)
SumOfCounts(list) ==
    IF list = <<>> THEN 0 ELSE Head(list).count + SumOfCounts(Tail(list))

\* the sections whose jobs include the job at place p
SectionsOf(p) ==
    {k \in DOMAIN sections : p \in Range(sections[k].company_jobs)}

\* C19: in the per-company breakdown of the report every job of the list
\* is under exactly one company section; the section of a company with n
\* jobs has n in its heading, lists the first min(n, 10) of the company's
\* jobs in the order of the list, and has an overflow note, which says
\* n - 10, exactly when n > 10; the counts of the sections add up to the
\* number of jobs of the report.
C19_EveryJobInOneSection ==
    report_pc = "written" =>
        /\ \A p \in DOMAIN ranked : Cardinality(SectionsOf(p)) = 1
        /\ \A k \in DOMAIN sections :
               LET n == CountByCompany(ranked)[sections[k].company]
                   first == IF n < LISTED_PER_COMPANY THEN n
                            ELSE LISTED_PER_COMPANY
               IN  /\ sections[k].count = n
                   /\ sections[k].listed =
                          SubSeq(sections[k].company_jobs, 1, first)
                   /\ Len(sections[k].listed) = first
                   /\ sections[k].note =
                          IF n > LISTED_PER_COMPANY
                          THEN <<n - LISTED_PER_COMPANY>> ELSE <<>>
        /\ SumOfCounts(sections) = Len(ranked)

----------------------------------------------------------------------------
(* main (src/main.py).  The stages main calls are the operations modelled *)
(* above and calls to the network, the disk and git; what each of them    *)
(* meets in a run is the environment of the run:                          *)
(*   companies_file, keywords_file  "ok", "missing", "unparsable", or     *)
(*       "malformed": it loads, but not as the mapping that is read       *)
(*   fetch    fetch_all_jobs returns records, returns nothing (every      *)
(*            adapter failed or no board has jobs), or raises             *)
(*   process  process_jobs returns records, returns nothing, or raises    *)
(*   report_write, insights_write  the file can be written or cannot      *)
(*   ai       no API key, no analysis came back, or analyses came back    *)
(*   commit, issue  the value commit_and_push_reports and                 *)
(*            create_daily_digest_issue return                            *)

FILE_STATES == {"ok", "missing", "unparsable", "malformed"}

\* load_config: logs and raises again what open and yaml.safe_load raise
load_config(file) ==
    CASE file = "missing" -> Raise("FileNotFoundError")
      [] file = "unparsable" -> Raise("YAMLError")
      [] OTHER -> Return(file)

\* a reporter that logs a write error and goes on
generate_reports_logs_only(env) == Return("report_files")

\* reporter.generate_reports: save_jobs_json and generate_markdown_report
\* log a write error and raise it again
generate_reports(env) ==
    IF env.report_write = "fails" THEN Raise("OSError")
    ELSE Return("report_files")

\* where the try body of main stopped: the stages it ran and how it left
Left(ran, outcome) == [stages |-> ran, outcome |-> outcome]

\* the try body of main (lines 67-164)
MainBody(env) ==
    IF Failed(load_config(env.companies_file))
    THEN Left(<<"load_config">>, load_config(env.companies_file))
    ELSE IF Failed(load_config(env.keywords_file))
    THEN Left(<<"load_config">>, load_config(env.keywords_file))
    ELSE IF env.companies_file = "malformed"
    THEN Left(<<"load_config">>, Raise("AttributeError"))
    ELSE IF env.keywords_file = "malformed"
    THEN Left(<<"load_config", "init">>, Raise("AttributeError"))
    ELSE IF env.fetch = "raises"
    THEN Left(<<"load_config", "init", "fetch">>, Raise("AttributeError"))
    ELSE IF env.fetch = "nothing"
    THEN Left(<<"load_config", "init", "fetch">>, Return(0))
    ELSE IF env.process = "raises"
    THEN Left(<<"load_config", "init", "fetch", "process">>,
              Raise("TypeError"))
    ELSE IF env.process = "nothing"
    THEN Left(<<"load_config", "init", "fetch", "process">>, Return(0))
    ELSE IF Failed(generate_reports(env))
    THEN Left(<<"load_config", "init", "fetch", "process", "report">>,
              generate_reports(env))
    ELSE IF env.ai = "analyses" /\ env.insights_write = "fails"
    THEN Left(<<"load_config", "init", "fetch", "process", "report", "ai">>,
              Raise("OSError"))
    ELSE Left(<<"load_config", "init", "fetch", "process", "report", "ai",
                "commit", "issue">>, Return(0))

\* a main that goes on with the later stages when a list is empty
MainGoesOnWhenEmpty ==
    /\ environment.run = "main"
    /\ stages = <<>>
    /\ \E left \in {MainBody([environment EXCEPT !.fetch = "records",
                                                 !.process = "records"])} :
          /\ stages' = left.stages
          /\ exit_status' = IF Failed(left.outcome) THEN 1
                            ELSE left.outcome.value
    /\ UNCHANGED <<processor_vars, permuted, config_vars, fetch_vars,
                   report_vars, environment, github_vars>>

\* main: except Exception: return 1
Main ==
    /\ environment.run = "main"
    /\ stages = <<>>
    /\ \E left \in {MainBody(environment)} :
          /\ stages' = left.stages
          /\ exit_status' = IF Failed(left.outcome) THEN 1
                            ELSE left.outcome.value
    /\ UNCHANGED <<processor_vars, permuted, config_vars, fetch_vars,
                   report_vars, environment, github_vars>>

NextMain == Main

Environments ==
    [run : {"main"},
     companies_file : FILE_STATES,
     keywords_file : FILE_STATES,
     fetch : {"records", "nothing", "raises"},
     process : {"records", "nothing", "raises"},
     report_write : {"ok", "fails"},
     ai : {"disabled", "no_analyses", "analyses"},
     insights_write : {"ok", "fails"},
     commit : BOOLEAN,
     issue : BOOLEAN]

InitMain ==
    /\ StartProcessor(<<>>, EmptyDict)
    /\ FetchIdle
    /\ ReportIdle
    /\ environment \in Environments
    /\ stages = <<>>
    /\ exit_status = "none"
    /\ CommitIdle
    /\ IssueIdle

SpecMain == InitMain /\ [][NextMain]_vars

\* main ran its first stage at least, and has returned
Returned == stages # <<>>

\* a configuration file is missing, cannot be parsed, or does not hold the
\* mapping main and JobProcessor read
ConfigError ==
    environment.companies_file # "ok" \/ environment.keywords_file # "ok"

\* the stage is the last one main ran
StoppedAt(stage) == stages # <<>> /\ stages[Len(stages)] = stage

----------------------------------------------------------------------------
(* The order of the list deduplicate_jobs returns. *)

\* list holds records of the list handed to deduplicate_jobs, each once
\* and in the order they have there
Subsequence(list) ==
    /\ Range(list) \subseteq Range(processed_jobs)
    /\ \A p, q \in DOMAIN list : p < q => Pos(list[p]) < Pos(list[q])

\* C24: the list deduplicate_jobs returns, and its list after every
\* iteration, replace steps included, holds records of the input in the
\* order they have in the input; and every key of an input record is the
\* key of exactly one returned record.
C24_SubsequenceWithEveryKey ==
    Done =>
        /\ \A k \in DOMAIN dedup_steps : Subsequence(dedup_steps[k])
        /\ Subsequence(unique_jobs)
        /\ \A j \in Range(processed_jobs) :
               Cardinality({p \in DOMAIN unique_jobs :
                               hashes[unique_jobs[p]] = hashes[j]}) = 1

\* C24 witness: a record displaced an earlier record of its key while a
\* record of another key, which stays in the list, stood between them.
C24_Witness ==
    /\ Done
    /\ \E u, b \in Range(unique_jobs) :
           \E a \in Group(u) :
               /\ hashes[b] # hashes[u]
               /\ Pos(a) < Pos(b) /\ Pos(b) < Pos(u)
               /\ DescLen(a) < DescLen(u)
               /\ ReplaceStep(Pos(u))

----------------------------------------------------------------------------
(* generate_job_hash on two records whose companies and titles hold       *)
(* colons: the first record ranges over short companies and titles, the  *)
(* second over companies and titles that a colon splits in several ways.  *)

ColonCompanies == Strings({"a", ":", " "}, MaxKeyLen)

ColonTitles == Strings({"A", ":"}, MaxKeyLen)

ColonOtherCompanies == {<<"a">>, <<"a",":">>, <<"a",":","a">>, <<":">>}

ColonOtherTitles == {<<>>, <<"a">>, <<":","a">>, <<"a",":","a">>}

InitColon ==
    \E c1 \in ColonCompanies, t1 \in ColonTitles,
       c2 \in ColonOtherCompanies, t2 \in ColonOtherTitles :
        Start(<<Job(t1, c1, <<"N","Y">>, <<>>),
                Job(t2, c2, <<"N","Y">>, <<"s">>)>>,
              EmptyDict)

SpecColon == InitColon /\ [][Next]_vars

\* the company of the record as it came, lower-cased and trimmed
NormalizedCompany(j) == Strip(Lower(Get(input[j], "company", <<>>)))

\* the title of the record as it came, as generate_job_hash normalizes it
NormalizedTitle(j) ==
    StripNonWord(CollapseWs(Strip(Lower(Get(input[j], "title", <<>>)))))

SamePair(i, j) ==
    /\ NormalizedCompany(i) = NormalizedCompany(j)
    /\ NormalizedTitle(i) = NormalizedTitle(j)

\* C25: two records get the same key only if their lower-cased, trimmed
\* companies are equal and their normalized titles are equal, and two
\* records whose pairs differ both survive deduplicate_jobs, whatever
\* colons the companies and the titles hold.
C25_SameKeyOnlyForSamePair ==
    Done =>
        \A i, j \in Range(processed_jobs) :
            /\ hashes[i] = hashes[j] => SamePair(i, j)
            /\ ~SamePair(i, j) => {i, j} \subseteq Range(unique_jobs)

\* C25 witness: the company of the second record is the company of the
\* first, a colon, and the normalized title of the first, so that the two
\* pre-hash strings differ only by the colon the second company holds;
\* both records survive.
C25_Witness ==
    /\ Done
    /\ Len(input) = 2
    /\ NormalizedTitle(1) # <<>>
    /\ NormalizedCompany(2) =
           NormalizedCompany(1) \o <<":">> \o NormalizedTitle(1)
    /\ NormalizedTitle(2) = <<>>
    /\ unique_jobs = <<1, 2>>

----------------------------------------------------------------------------
(* The order of the stages of main. *)

\* the stages of a run that goes through all of main, in the order of the
\* calls of its body
STAGE_ORDER ==
    <<"load_config", "init", "fetch", "process", "report", "ai", "commit",
      "issue">>

\* the stages that write a file, call the AI service, or call git or GitHub
LATER_STAGES == {"report", "ai", "commit", "issue"}

\* fetch_all_jobs returned an empty list, or process_jobs did
NothingFetched == ~ConfigError /\ environment.fetch = "nothing"

NothingProcessed ==
    /\ ~ConfigError
    /\ environment.fetch = "records"
    /\ environment.process = "nothing"

\* C22: when the fetch stage returns no record, or no record survives
\* process_jobs, main returns 0 and none of the report, AI, commit and
\* issue stages happens; every other run that returns 0 went through
\* fetch, process, report, AI analysis, commit/push and issue upsert, in
\* that order.
C22_SoftExitAndStageOrder ==
    Returned =>
        /\ NothingFetched =>
               /\ exit_status = 0
               /\ StoppedAt("fetch")
               /\ Range(stages) \cap (LATER_STAGES \cup {"process"}) = {}
        /\ NothingProcessed =>
               /\ exit_status = 0
               /\ StoppedAt("process")
               /\ Range(stages) \cap LATER_STAGES = {}
        /\ (exit_status = 0 /\ ~NothingFetched /\ ~NothingProcessed) =>
               stages = STAGE_ORDER
        /\ stages = SubSeq(STAGE_ORDER, 1, Len(stages))

\* C22 witness: a run in which records were fetched and none survived
\* process_jobs returned 0 after the process stage.
C22_Witness ==
    /\ Returned
    /\ NothingProcessed
    /\ exit_status = 0
    /\ stages = <<"load_config", "init", "fetch", "process">>

----------------------------------------------------------------------------
(* GitHubIntegration.commit_and_push_reports (src/github_integration.py). *)
(* A file of the list is "exists", "missing" (os.path.exists is False)    *)
(* or "None" (the key was not in report_files; os.path.exists(None)       *)
(* raises TypeError).  Every subprocess.run(..., check=True) either       *)
(* returns or raises: CalledProcessError for a nonzero exit,              *)
(* FileNotFoundError when there is no git.                                *)

GIT_CONFIG_NAME == "git config user.name"
GIT_CONFIG_EMAIL == "git config user.email"
GIT_ADD == "git add"
GIT_STATUS == "git status --porcelain"
GIT_COMMIT == "git commit"
GIT_PUSH == "git push"
EXISTS_RAISES == "os.path.exists(None)"

\* the commands of the for loop over files, up to the first file that is
\* None
RECURSIVE AddFiles(_)
AddFiles(files) ==
    IF files = <<>> THEN <<>>
    ELSE IF Head(files) = "None" THEN <<EXISTS_RAISES>>
    ELSE IF Head(files) = "exists" THEN <<GIT_ADD>> \o AddFiles(Tail(files))
    ELSE AddFiles(Tail(files))

\* the commands the try body runs when none of them fails, in order;
\* changes: git status printed something
Commands(files, changes) ==
    <<GIT_CONFIG_NAME, GIT_CONFIG_EMAIL>> \o AddFiles(files)
        \o <<GIT_STATUS>>
        \o (IF changes THEN <<GIT_COMMIT, GIT_PUSH>> ELSE <<>>)

\* what a command that succeeded printed: git status --porcelain prints
\* the changed files, the others are not captured
Stdout(command, changes) ==
    IF command = GIT_STATUS /\ changes THEN "M" ELSE ""

\* a call that goes on with the next command after one that failed
RunGoesOnAfterFailure(commands, changes, failing) ==
    [steps |-> [p \in DOMAIN commands |->
                   [command |-> commands[p], ok |-> p # failing,
                    stdout |-> IF p = failing THEN ""
                               ELSE Stdout(commands[p], changes)]],
     value |-> failing = 0]

\* the call in which the command at the place failing raises (0: none
\* does): the commands it ran and what each did, and the value returned;
\* both except clauses return False
Run(commands, changes, failing) ==
    LET last == IF failing = 0 THEN Len(commands) ELSE failing
    IN  [steps |-> [p \in 1..last |->
                       [command |-> commands[p], ok |-> p # failing,
                        stdout |-> IF p = failing THEN ""
                                   ELSE Stdout(commands[p], changes)]],
         value |-> failing = 0]

\* the places at which a command can raise (0: none does): any place, but
\* os.path.exists(None) always raises when it is reached
FailingPlaces(commands) ==
    LET raising == {p \in DOMAIN commands : commands[p] = EXISTS_RAISES}
    IN  IF raising = {} THEN 0..Len(commands)
        ELSE 1..(CHOOSE p \in raising : \A q \in raising : p <= q)

commit_and_push_reports(files, changes, failing) ==
    Run(Commands(files, changes), changes, failing)

CommitAndPushReports ==
    /\ git.call = "commit_and_push_reports"
    /\ git_steps = <<>>
    /\ \E changes \in BOOLEAN :
       \E failing \in FailingPlaces(Commands(git.files, changes)) :
       \E returned \in {commit_and_push_reports(git.files, changes, failing)} :
           /\ git_steps' = returned.steps
           /\ commit_success' = returned.value
    /\ UNCHANGED <<processor_vars, permuted, config_vars, fetch_vars,
                   report_vars, main_vars, git, github, issues, digest_log>>

NextCommit == CommitAndPushReports

FileLists == UNION {[1..n -> {"exists", "missing", "None"}] : n \in 0..MaxFiles}

InitCommit ==
    /\ StartProcessor(<<>>, EmptyDict)
    /\ FetchIdle
    /\ ReportIdle
    /\ MainIdle
    /\ IssueIdle
    /\ \E files \in FileLists :
           git = [call |-> "commit_and_push_reports", files |-> files]
    /\ git_steps = <<>>
    /\ commit_success = FALSE

SpecCommit == InitCommit /\ [][NextCommit]_vars

\* the call has returned (its first command is always run)
Committed == git_steps # <<>>

\* the places of the command among the commands that were run
PlacesOf(command) ==
    {p \in DOMAIN git_steps : git_steps[p].command = command}

Succeeded(command) ==
    \E p \in PlacesOf(command) : git_steps[p].ok

\* git status succeeded and printed changes, or printed nothing
StatusReported(changes) ==
    \E p \in PlacesOf(GIT_STATUS) :
        git_steps[p].ok /\ (git_steps[p].stdout # "") = changes

\* C23: in commit_and_push_reports, git push is run only after a git
\* commit that succeeded, and git commit only after a git status that
\* reported changes, and each at most once; when git status reported
\* nothing to commit, neither commit nor push was run and the result is
\* True; the result is True only if every command that was run succeeded;
\* and a command that failed is the last one that was run and gives False.
C23_CommitThenPush ==
    Committed =>
        /\ \A p \in PlacesOf(GIT_PUSH) :
               /\ p > 1
               /\ git_steps[p - 1] =
                      [command |-> GIT_COMMIT, ok |-> TRUE, stdout |-> ""]
        /\ \A p \in PlacesOf(GIT_COMMIT) :
               /\ p > 1
               /\ git_steps[p - 1] =
                      [command |-> GIT_STATUS, ok |-> TRUE, stdout |-> "M"]
        /\ Cardinality(PlacesOf(GIT_COMMIT)) <= 1
        /\ Cardinality(PlacesOf(GIT_PUSH)) <= 1
        /\ StatusReported(FALSE) =>
               /\ PlacesOf(GIT_COMMIT) = {}
               /\ PlacesOf(GIT_PUSH) = {}
               /\ commit_success = TRUE
        /\ commit_success = TRUE =>
               \A p \in DOMAIN git_steps : git_steps[p].ok
        /\ \A p \in DOMAIN git_steps :
               ~git_steps[p].ok =>
                   /\ p = Len(git_steps)
                   /\ commit_success = FALSE

\* C23 witness: git status reported changes, git commit failed, no push
\* was run and the call returned False.
C23_Witness ==
    /\ Committed
    /\ StatusReported(TRUE)
    /\ PlacesOf(GIT_COMMIT) # {}
    /\ ~Succeeded(GIT_COMMIT)
    /\ PlacesOf(GIT_PUSH) = {}
    /\ commit_success = FALSE

----------------------------------------------------------------------------
(* The digest issue (src/github_integration.py): find_existing_issue,     *)
(* create_or_update_issue and create_daily_digest_issue.  The variable    *)
(* issues is the repository's list of issues, the issue number being the  *)
(* place in the list.  Each request of a call meets a server that answers *)
(* ("ok"), or fails before it acted ("fails": no connection, an error     *)
(* status), or, for a request that writes, acts and then fails to answer  *)
(* within the timeout ("lost").  The body of the digest is the text of    *)
(* one run, modelled as the number of the call.                           *)

DIGEST_TITLE == "Daily Roles Digest"

PER_PAGE == 100

Number(n) == [type |-> "int", value |-> n]

\* if existing_issue: neither None nor 0
Found(existing) == existing.type = "int" /\ existing.value # 0

\* GET /repos/{repo}/issues with state=open, per_page=100: the open
\* issues, the newest first, one page of them
RECURSIVE OpenNewestFirst(_, _)
OpenNewestFirst(all, n) ==
    IF n = 0 THEN <<>>
    ELSE (IF all[n].state = "open" THEN <<n>> ELSE <<>>)
             \o OpenNewestFirst(all, n - 1)

FirstPage(all) ==
    LET listed == OpenNewestFirst(all, Len(all))
    IN  SubSeq(listed, 1, IF Len(listed) < PER_PAGE THEN Len(listed)
                          ELSE PER_PAGE)

\* find_existing_issue: the number of the first listed issue with the
\* title; None when there is none, and None when the request failed
find_existing_issue(configured, all, title, lookup) ==
    IF ~configured THEN Null
    ELSE IF lookup # "ok" THEN Null
    ELSE LET listed  == FirstPage(all)
             matches == {p \in DOMAIN listed : all[listed[p]].title = title}
         IN  IF matches = {} THEN Null
             ELSE Number(listed[CHOOSE p \in matches :
                                    \A q \in matches : p <= q])

\* create_or_update_issue: the repository it leaves, the request it sent,
\* the issue it looked up and the value it returned
create_or_update_issue(configured, all, title, body, lookup, write) ==
    IF ~configured
    THEN [issues |-> all, existing |-> Null, request |-> "none",
          value |-> FALSE]
    ELSE LET existing == find_existing_issue(configured, all, title, lookup)
         IN  IF Found(existing)
             THEN [issues |-> IF write = "fails" THEN all
                              ELSE [all EXCEPT ![existing.value].body = body],
                   existing |-> existing, request |-> "PATCH",
                   value |-> write = "ok"]
             ELSE [issues |-> IF write = "fails" THEN all
                              ELSE Append(all, [title |-> title,
                                                state |-> "open",
                                                body |-> body]),
                   existing |-> existing, request |-> "POST",
                   value |-> write = "ok"]

\* the open issues titled Daily Roles Digest
OpenDigests(all) ==
    {n \in DOMAIN all : all[n].title = DIGEST_TITLE /\ all[n].state = "open"}

CreateDailyDigestIssue ==
    /\ github.run = "digest"
    /\ Len(digest_log) < MaxDigests
    /\ \E lookup \in {"ok", "fails"}, write \in {"ok", "fails", "lost"} :
       \E done \in {create_or_update_issue(github.configured, issues,
                        DIGEST_TITLE, Len(digest_log) + 1, lookup, write)} :
           /\ issues' = done.issues
           /\ digest_log' = Append(digest_log,
                  [open_before |-> OpenDigests(issues),
                   existing |-> done.existing,
                   request |-> done.request,
                   value |-> done.value])
    /\ UNCHANGED <<processor_vars, permuted, config_vars, fetch_vars,
                   report_vars, main_vars, git, git_steps, commit_success,
                   github>>

\* somebody closes an open issue of the repository
CloseIssue ==
    /\ github.run = "digest"
    /\ \E n \in DOMAIN issues :
           /\ issues[n].state = "open"
           /\ issues' = [issues EXCEPT ![n].state = "closed"]
    /\ UNCHANGED <<processor_vars, permuted, config_vars, fetch_vars,
                   report_vars, main_vars, git, git_steps, commit_success,
                   github, digest_log>>

NextDigest == CreateDailyDigestIssue \/ CloseIssue

\* the repository before the first run: no issue, an issue of another
\* title, or a digest issue of an earlier day, open or closed
FirstIssues ==
    {<<>>,
     <<[title |-> "Other", state |-> "open", body |-> 0]>>,
     <<[title |-> DIGEST_TITLE, state |-> "open", body |-> 0]>>,
     <<[title |-> DIGEST_TITLE, state |-> "closed", body |-> 0]>>}

InitDigest ==
    /\ StartProcessor(<<>>, EmptyDict)
    /\ FetchIdle
    /\ ReportIdle
    /\ MainIdle
    /\ CommitIdle
    /\ \E configured \in BOOLEAN :
           github = [run |-> "digest", configured |-> configured]
    /\ issues \in FirstIssues
    /\ digest_log = <<>>

SpecDigest == InitDigest /\ [][NextDigest]_vars

\* C21: after any sequence of create_daily_digest_issue calls, whose
\* lookups, creations and updates may fail, the repository holds at most
\* one open issue titled Daily Roles Digest; a call sent a creation only
\* when no open issue of that title existed, and an update otherwise.
C21_AtMostOneOpenDigest ==
    /\ Cardinality(OpenDigests(issues)) <= 1
    /\ \A k \in DOMAIN digest_log :
           /\ digest_log[k].request = "POST" =>
                  digest_log[k].open_before = {}
           /\ (digest_log[k].open_before # {}
                   /\ digest_log[k].request # "none") =>
                  digest_log[k].request = "PATCH"

====
